---- MODULE Spec2Model ----
(***************************************************************************)
(* wt: a helper around `git worktree`.  The module models                  *)
(*   - the CI check aggregator (analyzeChecks, countCheckStatuses,          *)
(*     CheckStats.Result, CheckStats.String),                               *)
(*   - the polling loop gha(),                                              *)
(*   - the command grammar (parseArgs and its helpers) with run and main,   *)
(*     in the two generations found in the sources: the strict grammar      *)
(*     (unknown first token is an error) and the legacy grammar (unknown    *)
(*     first token is a branch name for create).                            *)
(* Strings of the program are TLA+ strings; formatted messages are tuples   *)
(* <<format, arg, ...>> so that two messages are equal exactly when the     *)
(* formatted texts are equal.                                               *)
(***************************************************************************)
EXTENDS Integers, Sequences, FiniteSets, TLC

VARIABLES
    \* ---- aggregator (one call of analyzeChecks / countCheckStatuses)
    checks,      \* the []CheckStatus handed to the aggregator / last provider answer
    result,      \* CheckResult returned by analyzeChecks
    summary,     \* summary string returned by analyzeChecks
    stats,       \* CheckStats returned by countCheckStatuses
    apc,         \* position of the aggregator harness
    \* ---- polling loop gha()
    gpc,         \* position inside gha(): "idle","loop","query","sleep","done"
                 \* ("off" when gha is not part of the specification)
    GHATimeout,  \* the package variable GHATimeout (seconds)
    elapsed,     \* wall-clock seconds since startTime
    checkedAt,   \* time.Since(startTime) as read by the last timeout check
    provErr,     \* the error the last ghPRViewFn call returned
    queries,     \* number of ghPRViewFn calls
    sleeps,      \* number of sleepFn calls
    sleepArgs,   \* the durations handed to sleepFn, in call order
    pendings,    \* number of provider answers that aggregated to Pending
    ghaErr,      \* value returned by gha(): <<>> for nil, else the error
    out,         \* what gha() printed on standard output, in order
    details,     \* the lines printCheckDetails printed
    \* ---- grammar, run and main
    grammar,     \* which generation of parseArgs is linked in
    args,        \* os.Args[1:]
    mpc,         \* position inside main(): "start","handler","returned","exited"
    parsed,      \* what parseArgs returned
    calls,       \* handlers / collaborators invoked by run, in order
    runErr,      \* value returned by run()
    stdout,      \* what main printed on standard output
    stderr,      \* what main printed on standard error
    exitCode,    \* argument of exitFn, -1 when exitFn was not called
    \* ---- remove (the handler of the remove command and its environment)
    cwd,         \* result of getwdFn: the path, "" when it fails
    rootErr,     \* error of the last gitMainRoot call, NoError when it succeeded
    gitCalls,    \* the gitCmd calls made so far, in order
    rmName,      \* the name remove() was called with, "" before
    rmOut,       \* what remove() wrote on standard output for the shell wrapper
    \* ---- jump and create (called on their own, with the filesystem they see)
    wpc,         \* "start", then "jumped" or "created"; "off" when unused
    wName,       \* the name argument
    wHook,       \* the hookPath argument of create
    fsys,        \* what os.Stat returns for the paths the handlers look at
    steps,       \* what the handler did, in order
    wOut,        \* what the handler wrote on standard output
    wErr,        \* the error the handler returned, <<>> for nil
    \* ---- shell wrapper (the function wt of wt.sh / wt.fish)
    shpc,        \* "start", then "bash" or "fish"; "off" when unused
    shArgs,      \* the arguments of the function
    binFound,    \* whether the wt binary is found in PATH
    shDirs,      \* the paths that are existing directories
    binOut,      \* the lines the binary wrote on standard output
    binExit,     \* the exit status of the binary, -1 when it did not run
    terminal,    \* the lines of the binary's standard output that reached the terminal
    shStderr,    \* what the function itself wrote on standard error
    shCwd,       \* the working directory of the shell
    shStatus     \* the status the function returned, -1 before

avars == <<checks, result, summary, stats, apc>>
gvars == <<gpc, GHATimeout, elapsed, checkedAt, provErr, queries, sleeps, sleepArgs,
           pendings, ghaErr, out, details>>
rvars == <<cwd, rootErr, gitCalls, rmName, rmOut>>
mvars == <<grammar, args, mpc, parsed, calls, runErr, stdout, stderr, exitCode, rvars>>
wvars == <<wpc, wName, wHook, fsys, steps, wOut, wErr>>
svars == <<shpc, shArgs, binFound, shDirs, binOut, binExit, terminal, shStderr, shCwd, shStatus>>
vars  == <<avars, gvars, mvars, wvars, svars>>

----------------------------------------------------------------------------
(* Bounds of the model *)

MaxChecks == 2        \* longest check collection given to the aggregator
MaxPolled == 2        \* longest check collection the provider answers with
MaxQueries == 3       \* provider queries after which the exploration stops
MaxArgs == 3          \* longest argument list
MaxHooks == 2         \* most `--hook <path>` pairs in a generated argument list
MaxTail == 2          \* most tokens after the pairs in a generated argument list
MaxClockQueries == 123   \* provider queries explored when the clock is driven by sleepFn alone

----------------------------------------------------------------------------
(* Constants of the program (config.go) *)

CheckStatusQueued     == "QUEUED"
CheckStatusInProgress == "IN_PROGRESS"
CheckStatusCompleted  == "COMPLETED"

CheckConclusionSuccess   == "SUCCESS"
CheckConclusionNeutral   == "NEUTRAL"
CheckConclusionSkipped   == "SKIPPED"
CheckConclusionFailure   == "FAILURE"
CheckConclusionCancelled == "CANCELLED"

CheckResultPending == 0
CheckResultSuccess == 1
CheckResultFailure == 2

\* Values the provider can put into the two string fields: the documented
\* ones, the empty string, and one value the program does not know.
StatusValues ==
    {CheckStatusQueued, CheckStatusInProgress, CheckStatusCompleted, "WAITING"}
ConclusionValues ==
    {CheckConclusionSuccess, CheckConclusionNeutral, CheckConclusionSkipped,
     CheckConclusionFailure, CheckConclusionCancelled, "", "TIMED_OUT"}
NameValues == {"build"}

CheckStatus == [Name : NameValues, Status : StatusValues, Conclusion : ConclusionValues]

SeqsUpTo(S, n) == UNION {[1..k -> S] : k \in 0..n}

----------------------------------------------------------------------------
(* CI check aggregator *)

isCheckComplete(check) == check.Status = CheckStatusCompleted

\* Mutant: only FAILURE and CANCELLED count as failing.
isCheckSuccessLenient(check) ==
    check.Conclusion \notin {CheckConclusionFailure, CheckConclusionCancelled}

isCheckSuccess(check) ==
    check.Conclusion \in
        {CheckConclusionSuccess, CheckConclusionNeutral, CheckConclusionSkipped}

\* Mutant: a completed check with an undocumented conclusion is counted nowhere.
countOneDropUnknown(st, check) ==
    IF isCheckComplete(check)
    THEN IF isCheckSuccess(check)
         THEN [st EXCEPT !.Passed = @ + 1]
         ELSE IF check.Conclusion \in {CheckConclusionFailure, CheckConclusionCancelled}
         THEN [st EXCEPT !.Failed = @ + 1]
         ELSE st
    ELSE [st EXCEPT !.Pending = @ + 1]

\* One iteration of the loop of countCheckStatuses.
countOne(st, check) ==
    IF isCheckComplete(check)
    THEN IF isCheckSuccess(check)
         THEN [st EXCEPT !.Passed = @ + 1]
         ELSE [st EXCEPT !.Failed = @ + 1]
    ELSE [st EXCEPT !.Pending = @ + 1]

RECURSIVE countFrom(_, _, _)
countFrom(cs, i, st) ==
    IF i > Len(cs) THEN st ELSE countFrom(cs, i + 1, countOne(st, cs[i]))

countCheckStatuses(cs) ==
    countFrom(cs, 1, [Passed |-> 0, Failed |-> 0, Pending |-> 0, Total |-> Len(cs)])

StatsString(cs) ==
    <<"Checks: %d/%d completed (%d passed, %d failed, %d pending)",
      cs.Passed + cs.Failed, cs.Total, cs.Passed, cs.Failed, cs.Pending>>

\* Mutant: a failure is reported before the pending count is looked at.
StatsResultFailFirst(cs) ==
    IF cs.Failed > 0 THEN CheckResultFailure
    ELSE IF cs.Pending > 0 THEN CheckResultPending
    ELSE CheckResultSuccess

StatsResult(cs) ==
    IF cs.Pending > 0 THEN CheckResultPending
    ELSE IF cs.Failed > 0 THEN CheckResultFailure
    ELSE CheckResultSuccess

\* Mutant: no special case for the empty collection.
analyzeChecksNoEmptyCase(cs) ==
    LET st == countCheckStatuses(cs)
    IN  [result |-> StatsResult(st), summary |-> StatsString(st)]

analyzeChecks(cs) ==
    IF Len(cs) = 0
    THEN [result |-> CheckResultPending, summary |-> <<"No checks found yet...">>]
    ELSE LET st == countCheckStatuses(cs)
         IN  [result |-> StatsResult(st), summary |-> StatsString(st)]

\* Mutant: the inline switch lists CANCELLED among the passing conclusions.
RECURSIVE inlineCountCancelledPasses(_, _, _)
inlineCountCancelledPasses(cs, i, c) ==
    IF i > Len(cs) THEN c
    ELSE inlineCountCancelledPasses(cs, i + 1,
           IF cs[i].Status = "COMPLETED"
           THEN IF cs[i].Conclusion \in {"SUCCESS", "NEUTRAL", "SKIPPED", "CANCELLED"}
                THEN [c EXCEPT !.passed = @ + 1]
                ELSE [c EXCEPT !.failed = @ + 1]
           ELSE [c EXCEPT !.pending = @ + 1])

\* analyzeChecks as one function with nested switches (the earlier generation).
RECURSIVE inlineCount(_, _, _)
inlineCount(cs, i, c) ==
    IF i > Len(cs) THEN c
    ELSE inlineCount(cs, i + 1,
           IF cs[i].Status = "COMPLETED"
           THEN IF cs[i].Conclusion \in {"SUCCESS", "NEUTRAL", "SKIPPED"}
                THEN [c EXCEPT !.passed = @ + 1]
                ELSE [c EXCEPT !.failed = @ + 1]
           ELSE [c EXCEPT !.pending = @ + 1])

analyzeChecksInline(cs) ==
    IF Len(cs) = 0
    THEN [result |-> CheckResultPending, summary |-> <<"No checks found yet...">>]
    ELSE LET c   == inlineCount(cs, 1, [pending |-> 0, passed |-> 0, failed |-> 0])
             total == Len(cs)
             sum == <<"Checks: %d/%d completed (%d passed, %d failed, %d pending)",
                      c.passed + c.failed, total, c.passed, c.failed, c.pending>>
         IN  IF c.pending > 0 THEN [result |-> CheckResultPending, summary |-> sum]
             ELSE IF c.failed > 0 THEN [result |-> CheckResultFailure, summary |-> sum]
             ELSE [result |-> CheckResultSuccess, summary |-> sum]

----------------------------------------------------------------------------
(* Aggregator harness: the collection is drawn in Init, one call is made. *)

ZeroStats == [Passed |-> 0, Failed |-> 0, Pending |-> 0, Total |-> 0]

AInit ==
    /\ checks \in SeqsUpTo(CheckStatus, MaxChecks)
    /\ result = CheckResultPending
    /\ summary = <<>>
    /\ stats = ZeroStats
    /\ apc = "input"

\* result, summary := analyzeChecks(checks)
Analyze ==
    /\ apc = "input"
    /\ LET r == analyzeChecks(checks)
       IN  /\ result' = r.result
           /\ summary' = r.summary
    /\ apc' = "analyzed"
    /\ UNCHANGED <<checks, stats>>

\* the same call against the inline generation of analyzeChecks
AnalyzeInline ==
    /\ apc = "input"
    /\ LET r == analyzeChecksInline(checks)
       IN  /\ result' = r.result
           /\ summary' = r.summary
    /\ apc' = "analyzedInline"
    /\ UNCHANGED <<checks, stats>>

\* stats := countCheckStatuses(checks)
Count ==
    /\ apc = "input"
    /\ stats' = countCheckStatuses(checks)
    /\ apc' = "counted"
    /\ UNCHANGED <<checks, result, summary>>

----------------------------------------------------------------------------
(* Polling loop gha() *)

DefaultPollInterval == 30      \* 30 * time.Second, in seconds
DefaultGHATimeout   == 3600    \* 60 * time.Minute, in seconds

MarkerSuccess == "+"
MarkerFailure == "x"
MarkerPending == " "

\* Values GHATimeout is set to: the default, and short ones as tests set.
TimeoutValues == {1, 60, DefaultGHATimeout}
\* Seconds between startTime := time.Now() and the first timeout check.
StartDelays == {0, 2}
\* Seconds a call of ghPRViewFn takes.
CallDurations == {0, 40}
\* Seconds the clock advances during sleepFn(d): d for time.Sleep, 0 for the
\* stub the tests install.
SleepAdvances(d) == {0, d}

\* What the provider answers with on success.
PolledRecords ==
    { [Name |-> "build", Status |-> CheckStatusQueued,     Conclusion |-> ""],
      [Name |-> "build", Status |-> CheckStatusInProgress, Conclusion |-> ""],
      [Name |-> "build", Status |-> CheckStatusCompleted,  Conclusion |-> CheckConclusionSuccess],
      [Name |-> "build", Status |-> CheckStatusCompleted,  Conclusion |-> CheckConclusionFailure] }
PolledChecks == SeqsUpTo(PolledRecords, MaxPolled)
\* The errors ghPRViewFn returns.
ProviderErrors ==
    { <<"no PR found for current branch">>, <<"failed to get PR status: %w">> }

ErrTimeout(t)   == <<"timeout: checks did not complete within %v", t>>
ErrChecksFailed == <<"checks failed">>
NoError         == <<>>

\* Mutant: CANCELLED is marked like FAILURE.
getCheckMarkerCancelledIsFailure(check) ==
    IF ~isCheckComplete(check) THEN MarkerPending
    ELSE IF check.Conclusion = CheckConclusionSuccess THEN MarkerSuccess
    ELSE IF check.Conclusion \in {CheckConclusionFailure, CheckConclusionCancelled}
    THEN MarkerFailure
    ELSE MarkerPending

getCheckMarker(check) ==
    IF ~isCheckComplete(check) THEN MarkerPending
    ELSE IF check.Conclusion = CheckConclusionSuccess THEN MarkerSuccess
    ELSE IF check.Conclusion = CheckConclusionFailure THEN MarkerFailure
    ELSE MarkerPending

getCheckStatusDisplay(check) ==
    IF isCheckComplete(check) THEN check.Conclusion ELSE check.Status

\* The lines printCheckDetails prints after its heading, one per check.
printCheckDetails(cs) ==
    [i \in 1..Len(cs) |->
        <<"  [%s] %s: %s", getCheckMarker(cs[i]), cs[i].Name, getCheckStatusDisplay(cs[i])>>]

\* The marker of the inline generation of printCheckDetails: chosen from the
\* conclusion alone.
inlineMarker(check) ==
    IF check.Conclusion = "SUCCESS" THEN "+"
    ELSE IF check.Conclusion = "FAILURE" THEN "x"
    ELSE " "

\* The lines the inline generation of printCheckDetails prints after its
\* heading.
printCheckDetailsInline(cs) ==
    [i \in 1..Len(cs) |->
        <<"  [%s] %s: %s", inlineMarker(cs[i]), cs[i].Name,
          IF cs[i].Status = "COMPLETED" THEN cs[i].Conclusion ELSE cs[i].Status>>]

\* printCheckDetails(checks), called on its own as the unit tests do
PrintDetails ==
    /\ apc = "input"
    /\ details' = printCheckDetails(checks)
    /\ apc' = "printed"
    /\ UNCHANGED <<checks, result, summary, stats>>

\* the same call against the inline generation
PrintDetailsInline ==
    /\ apc = "input"
    /\ details' = printCheckDetailsInline(checks)
    /\ apc' = "printedInline"
    /\ UNCHANGED <<checks, result, summary, stats>>

\* Mutant: the timeout check is missing.
TimedOutNever(since, timeout) == FALSE

\* Mutant: the deadline is noticed one poll interval late.
TimedOutLate(since, timeout) == since > timeout + DefaultPollInterval

\* if time.Since(startTime) > GHATimeout
TimedOut(since, timeout) == since > timeout

GInit ==
    /\ gpc = "idle"
    /\ GHATimeout \in TimeoutValues
    /\ elapsed = 0
    /\ checkedAt = 0
    /\ provErr = NoError
    /\ queries = 0
    /\ sleeps = 0
    /\ sleepArgs = <<>>
    /\ pendings = 0
    /\ ghaErr = NoError
    /\ out = <<>>
    /\ details = <<>>

\* startTime := time.Now(); fmt.Println("Monitoring ...")
GhaStart ==
    /\ gpc = "idle"
    /\ gpc' = "loop"
    /\ \E d \in StartDelays : elapsed' = d
    /\ out' = Append(out, "Monitoring GitHub Actions for current branch's PR...")
    /\ UNCHANGED <<GHATimeout, checkedAt, provErr, queries, sleeps, sleepArgs, pendings,
                   ghaErr, details, checks, result, summary>>

\* top of the loop, deadline passed: return the timeout error
GhaTimeout ==
    /\ gpc = "loop"
    /\ TimedOut(elapsed, GHATimeout)
    /\ checkedAt' = elapsed
    /\ ghaErr' = ErrTimeout(GHATimeout)
    /\ gpc' = "done"
    /\ UNCHANGED <<GHATimeout, elapsed, provErr, queries, sleeps, sleepArgs, pendings, out, details,
                   checks, result, summary>>

\* top of the loop, deadline not passed: call ghPRViewFn (explored for the
\* first max queries)
GhaQueryUpTo(max) ==
    /\ gpc = "loop"
    /\ ~TimedOut(elapsed, GHATimeout)
    /\ queries < max
    /\ checkedAt' = elapsed
    /\ queries' = queries + 1
    /\ gpc' = "query"
    /\ UNCHANGED <<GHATimeout, elapsed, provErr, sleeps, sleepArgs, pendings, ghaErr, out, details,
                   checks, result, summary>>

GhaQuery == GhaQueryUpTo(MaxQueries)

\* Mutant: a provider error is retried in the next cycle.
OnProviderErrorRetry(err) == [pc |-> "loop", err |-> NoError]

\* What gha does with a provider error: the position it continues at and
\* the value it returns.
OnProviderError(err) == [pc |-> "done", err |-> err]

\* ghPRViewFn returns an error after d seconds
GhaProviderError ==
    /\ gpc = "query"
    /\ \E d \in CallDurations, e \in ProviderErrors :
         /\ elapsed' = elapsed + d
         /\ provErr' = e
         /\ gpc' = OnProviderError(e).pc
         /\ ghaErr' = OnProviderError(e).err
    /\ UNCHANGED <<GHATimeout, checkedAt, queries, sleeps, sleepArgs, pendings, out, details,
                   checks, result, summary>>

\* Mutant: sleepFn is called before the switch, whatever the aggregate is.
OnResultSleepAlways(res, cs) ==
    IF res = CheckResultSuccess
    THEN [pc |-> "done", print |-> <<"All checks passed!">>, details |-> <<>>,
          err |-> NoError, sleep |-> <<DefaultPollInterval>>]
    ELSE IF res = CheckResultFailure
    THEN [pc |-> "done", print |-> <<"Some checks failed!", "Check details:">>,
          details |-> printCheckDetails(cs), err |-> ErrChecksFailed,
          sleep |-> <<DefaultPollInterval>>]
    ELSE [pc |-> "sleep", print |-> <<>>, details |-> <<>>,
          err |-> NoError, sleep |-> <<DefaultPollInterval>>]

\* The switch on the aggregate: the position gha continues at, what it
\* prints after the summary, the detail lines, the value it returns and the
\* durations it hands to sleepFn.
OnResult(res, cs) ==
    IF res = CheckResultSuccess
    THEN [pc |-> "done", print |-> <<"All checks passed!">>, details |-> <<>>,
          err |-> NoError, sleep |-> <<>>]
    ELSE IF res = CheckResultFailure
    THEN [pc |-> "done", print |-> <<"Some checks failed!", "Check details:">>,
          details |-> printCheckDetails(cs), err |-> ErrChecksFailed, sleep |-> <<>>]
    ELSE [pc |-> "sleep", print |-> <<>>, details |-> <<>>,
          err |-> NoError, sleep |-> <<DefaultPollInterval>>]

\* ghPRViewFn returns a status after d seconds; the rest of the cycle up to
\* the return or the call of sleepFn
GhaProviderStatus ==
    /\ gpc = "query"
    /\ \E d \in CallDurations, cs \in PolledChecks :
         \E r \in {analyzeChecks(cs)} :
         \E on \in {OnResult(r.result, cs)} :
             /\ elapsed' = elapsed + d
             /\ provErr' = NoError
             /\ checks' = cs
             /\ result' = r.result
             /\ summary' = r.summary
             /\ out' = out \o <<"summary">> \o on.print
             /\ details' = on.details
             /\ ghaErr' = on.err
             /\ gpc' = on.pc
             /\ pendings' = IF r.result = CheckResultPending THEN pendings + 1 ELSE pendings
             /\ sleeps' = sleeps + Len(on.sleep)
             /\ sleepArgs' = sleepArgs \o on.sleep
    /\ UNCHANGED <<GHATimeout, checkedAt, queries>>

\* sleepFn returns
GhaSleepReturn ==
    /\ gpc = "sleep"
    /\ \E adv \in SleepAdvances(sleepArgs[Len(sleepArgs)]) : elapsed' = elapsed + adv
    /\ gpc' = "loop"
    /\ UNCHANGED <<GHATimeout, checkedAt, provErr, queries, sleeps, sleepArgs, pendings,
                   ghaErr, out, details, checks, result, summary>>

\* The same loop under the clock of time.Sleep alone: the first check is at
\* startTime, a call of ghPRViewFn takes no time, and sleepFn(d) returns
\* after exactly d.  The provider answers with one of ClockAnswers.
ClockAnswers ==
    { <<>>,
      <<[Name |-> "build", Status |-> CheckStatusInProgress, Conclusion |-> ""]>>,
      <<[Name |-> "build", Status |-> CheckStatusCompleted, Conclusion |-> CheckConclusionSuccess]>>,
      <<[Name |-> "build", Status |-> CheckStatusCompleted, Conclusion |-> CheckConclusionFailure]>> }

ClockStart == GhaStart /\ elapsed' = 0
ClockTimeout == GhaTimeout
ClockQuery == GhaQueryUpTo(MaxClockQueries)
ClockProviderError == GhaProviderError /\ elapsed' = elapsed
ClockProviderStatus == GhaProviderStatus /\ elapsed' = elapsed /\ checks' \in ClockAnswers
ClockSleepReturn == GhaSleepReturn /\ elapsed' = elapsed + sleepArgs[Len(sleepArgs)]

----------------------------------------------------------------------------
(* Command grammar *)

DefaultHook == ".worktree-hook"

errShowHelp     == <<"show help">>
errShowHelpFail == <<"show help (error)">>

\* The tokens argument lists are drawn from: the command names, the help
\* flags, --hook, two unknown flags, a plain word and the empty string.
Tokens ==
    {"create", "remove", "jump", "list", "gha", "completion", "__complete",
     "-h", "--help", "--hook", "-x", "-y", "foo", ""}

\* The values given to --hook and the tokens after the options in the longer
\* argument lists.
HookValues == {"foo", "--hook", "-x", ""}
TailTokens == {"foo", "remove", "--hook", "-x"}

RECURSIVE HookPairs(_)
\* the sequences of exactly n `--hook <value>` pairs
HookPairs(n) ==
    IF n = 0 THEN {<<>>}
    ELSE {<<"--hook", v>> \o r : v \in HookValues, r \in HookPairs(n - 1)}

\* Argument lists of the shape [command] (--hook value)* token*, too long to
\* be among the lists of MaxArgs tokens.
HookArgLists ==
    {c \o h \o t : c \in {<<>>} \cup {<<x>> : x \in {"create", "remove", "jump", "list",
                                                    "gha", "completion", "__complete"}},
                   h \in UNION {HookPairs(n) : n \in 1..MaxHooks},
                   t \in SeqsUpTo(TailTokens, MaxTail)}

\* The argument lists main is started with.
ArgLists == SeqsUpTo(Tokens, MaxArgs) \cup HookArgLists

\* Mutant: only a double dash makes a flag.
StartsWithDashDouble(s) == s \in {"--help", "--hook"}

\* len(s) > 0 && s[0] == '-', over Tokens and DefaultHook
StartsWithDash(s) == s \in {"-h", "--help", "--hook", "-x", "-y"}

\* args[i] with Go's indices
At(a, i) == a[i + 1]

validCommands == {"create", "remove", "jump", "list", "gha", "completion", "__complete"}
validCommandsLegacy == {"create", "remove", "gha", "completion", "__complete"}

isValidCommand(s) == s \in validCommands
\* Mutant: create is missing from the command names of the legacy generation.
isValidCommandLegacyNoCreate(s) == s \in {"remove", "gha", "completion", "__complete"}

isValidCommandLegacy(s) == s \in validCommandsLegacy

\* Mutant: only the first argument is looked at.
isHelpRequestedFirstOnly(a) == Len(a) > 0 /\ (a[1] = "-h" \/ a[1] = "--help")

isHelpRequested(a) == \E i \in 1..Len(a) : a[i] = "-h" \/ a[i] = "--help"

\* Mutant: an unknown first token leaves the command at create.
parseCommandImplicitCreate(a) ==
    IF Len(a) = 0 THEN [cmd |-> "", startIdx |-> 0, err |-> NoError]
    ELSE IF isValidCommand(At(a, 0)) THEN [cmd |-> At(a, 0), startIdx |-> 1, err |-> NoError]
    ELSE [cmd |-> "create", startIdx |-> 0, err |-> NoError]

\* strict generation: an unknown first token is an error
parseCommand(a) ==
    IF Len(a) = 0 THEN [cmd |-> "", startIdx |-> 0, err |-> NoError]
    ELSE IF isValidCommand(At(a, 0)) THEN [cmd |-> At(a, 0), startIdx |-> 1, err |-> NoError]
    ELSE [cmd |-> "", startIdx |-> 0, err |-> <<"unknown command: %s", At(a, 0)>>]

\* Mutant: the scan starts behind the first token whether or not it names a
\* command.
parseCommandLegacySkipsFirst(a) ==
    IF Len(a) = 0 THEN [cmd |-> "create", startIdx |-> 0]
    ELSE IF isValidCommandLegacy(At(a, 0)) THEN [cmd |-> At(a, 0), startIdx |-> 1]
    ELSE [cmd |-> "create", startIdx |-> 1]

\* legacy generation: an unknown first token leaves the command at create
parseCommandLegacy(a) ==
    IF Len(a) = 0 THEN [cmd |-> "create", startIdx |-> 0]
    ELSE IF isValidCommandLegacy(At(a, 0)) THEN [cmd |-> At(a, 0), startIdx |-> 1]
    ELSE [cmd |-> "create", startIdx |-> 0]

RECURSIVE hookLoopNoValueCheck(_, _, _)
\* Mutant: a --hook without a following token ends the scan silently.
hookLoopNoValueCheck(a, idx, hookPath) ==
    IF idx < Len(a)
    THEN IF At(a, idx) = "--hook"
         THEN IF idx + 1 >= Len(a)
              THEN [idx |-> idx + 1, hookPath |-> hookPath, err |-> NoError]
              ELSE hookLoopNoValueCheck(a, idx + 2, At(a, idx + 1))
         ELSE IF StartsWithDash(At(a, idx))
              THEN [idx |-> 0, hookPath |-> "", err |-> <<"unknown flag %s", At(a, idx)>>]
              ELSE [idx |-> idx, hookPath |-> hookPath, err |-> NoError]
    ELSE [idx |-> idx, hookPath |-> hookPath, err |-> NoError]

RECURSIVE hookLoopFirstWins(_, _, _)
\* Mutant: a repeated --hook does not replace the path of the first one.
hookLoopFirstWins(a, idx, hookPath) ==
    IF idx < Len(a)
    THEN IF At(a, idx) = "--hook"
         THEN IF idx + 1 >= Len(a)
              THEN [idx |-> 0, hookPath |-> "", err |-> <<"--hook requires a path argument">>]
              ELSE hookLoopFirstWins(a, idx + 2,
                                     IF hookPath = DefaultHook THEN At(a, idx + 1) ELSE hookPath)
         ELSE IF StartsWithDash(At(a, idx))
              THEN [idx |-> 0, hookPath |-> "", err |-> <<"unknown flag %s", At(a, idx)>>]
              ELSE [idx |-> idx, hookPath |-> hookPath, err |-> NoError]
    ELSE [idx |-> idx, hookPath |-> hookPath, err |-> NoError]

RECURSIVE hookLoop(_, _, _)
hookLoop(a, idx, hookPath) ==
    IF idx < Len(a)
    THEN IF At(a, idx) = "--hook"
         THEN IF idx + 1 >= Len(a)
              THEN [idx |-> 0, hookPath |-> "", err |-> <<"--hook requires a path argument">>]
              ELSE hookLoop(a, idx + 2, At(a, idx + 1))
         ELSE IF StartsWithDash(At(a, idx))
              THEN [idx |-> 0, hookPath |-> "", err |-> <<"unknown flag %s", At(a, idx)>>]
              ELSE [idx |-> idx, hookPath |-> hookPath, err |-> NoError]
    ELSE [idx |-> idx, hookPath |-> hookPath, err |-> NoError]

parseHookFlag(a, idx, defaultHook) == hookLoop(a, idx, defaultHook)

ParseError(e) == [cmd |-> "", name |-> "", hookPath |-> "", err |-> e]
Parsed(c, n, h) == [cmd |-> c, name |-> n, hookPath |-> h, err |-> NoError]

\* Mutant: the final name is accepted without looking for a token after it.
parseTailNoExtraCheck(a, cmd, idx, hookPath) ==
    IF cmd = "gha"
    THEN IF idx < Len(a) THEN ParseError(<<"unexpected argument: %s", At(a, idx)>>)
         ELSE Parsed(cmd, "", hookPath)
    ELSE IF cmd = "completion"
    THEN IF idx >= Len(a) THEN ParseError(<<"shell name required (bash, zsh, fish)">>)
         ELSE IF idx + 1 < Len(a) THEN ParseError(<<"unexpected argument: %s", At(a, idx + 1)>>)
         ELSE Parsed(cmd, At(a, idx), hookPath)
    ELSE IF cmd = "__complete"
    THEN IF idx >= Len(a) THEN ParseError(<<"subcommand required">>)
         ELSE Parsed(cmd, At(a, idx), hookPath)
    ELSE IF idx >= Len(a) THEN ParseError(<<"branch name required">>)
    ELSE Parsed(cmd, At(a, idx), hookPath)

\* The part of parseArgs after the --hook scan that both generations share
\* for gha, completion, __complete and the final name.
parseTail(a, cmd, idx, hookPath) ==
    IF cmd = "gha"
    THEN IF idx < Len(a) THEN ParseError(<<"unexpected argument: %s", At(a, idx)>>)
         ELSE Parsed(cmd, "", hookPath)
    ELSE IF cmd = "completion"
    THEN IF idx >= Len(a) THEN ParseError(<<"shell name required (bash, zsh, fish)">>)
         ELSE IF idx + 1 < Len(a) THEN ParseError(<<"unexpected argument: %s", At(a, idx + 1)>>)
         ELSE Parsed(cmd, At(a, idx), hookPath)
    ELSE IF cmd = "__complete"
    THEN IF idx >= Len(a) THEN ParseError(<<"subcommand required">>)
         ELSE Parsed(cmd, At(a, idx), hookPath)
    ELSE IF idx >= Len(a) THEN ParseError(<<"branch name required">>)
    ELSE IF idx + 1 < Len(a) THEN ParseError(<<"unexpected argument: %s", At(a, idx + 1)>>)
    ELSE Parsed(cmd, At(a, idx), hookPath)

\* parseArgs of the strict generation
parseArgs(a) ==
    IF Len(a) = 0 THEN ParseError(errShowHelp)
    ELSE IF isHelpRequested(a) THEN ParseError(errShowHelp)
    ELSE LET c == parseCommand(a) IN
         IF c.err # NoError THEN ParseError(c.err)
         ELSE LET h == parseHookFlag(a, c.startIdx, DefaultHook)
                  idx == h.idx
              IN
              IF h.err # NoError THEN ParseError(h.err)
              ELSE IF c.cmd = "jump"
              THEN IF idx < Len(a)
                   THEN IF idx + 1 < Len(a)
                        THEN ParseError(<<"unexpected argument: %s", At(a, idx + 1)>>)
                        ELSE Parsed(c.cmd, At(a, idx), h.hookPath)
                   ELSE Parsed(c.cmd, "", h.hookPath)
              ELSE IF c.cmd = "list"
              THEN IF idx < Len(a) THEN ParseError(<<"unexpected argument: %s", At(a, idx)>>)
                   ELSE Parsed(c.cmd, "", h.hookPath)
              ELSE IF c.cmd = "remove" /\ idx >= Len(a)
              THEN Parsed(c.cmd, "", h.hookPath)
              ELSE parseTail(a, c.cmd, idx, h.hookPath)

\* Mutant: the legacy generation answers an empty argument list with the
\* plain show-help outcome.
parseArgsLegacyEmptyIsHelp(a) ==
    IF Len(a) = 0 THEN ParseError(errShowHelp)
    ELSE IF isHelpRequested(a) THEN ParseError(errShowHelp)
    ELSE LET c == parseCommandLegacy(a)
             h == parseHookFlag(a, c.startIdx, DefaultHook)
         IN  IF h.err # NoError THEN ParseError(h.err)
             ELSE parseTail(a, c.cmd, h.idx, h.hookPath)

\* parseArgs of the legacy generation
parseArgsLegacy(a) ==
    IF Len(a) = 0 THEN ParseError(errShowHelpFail)
    ELSE IF isHelpRequested(a) THEN ParseError(errShowHelp)
    ELSE LET c == parseCommandLegacy(a)
             h == parseHookFlag(a, c.startIdx, DefaultHook)
         IN  IF h.err # NoError THEN ParseError(h.err)
             ELSE parseTail(a, c.cmd, h.idx, h.hookPath)

----------------------------------------------------------------------------
(* run and main *)

Grammars == {"strict", "legacy"}

\* The switch of run, strict generation: the handler called for an accepted
\* invocation, "" when run returns nil without calling one.
runSwitch(p) ==
    IF p.cmd = "jump" THEN "jump"
    ELSE IF p.cmd = "create" THEN "create"
    ELSE IF p.cmd = "remove" THEN "runRemove"
    ELSE IF p.cmd = "list" THEN "list"
    ELSE IF p.cmd = "gha" THEN "gha"
    ELSE IF p.cmd = "completion" THEN "completion"
    ELSE IF p.name = "remove" \/ p.name = "jump" THEN "completeWorktrees"
    ELSE ""

\* The switch of run, legacy generation.
runSwitchLegacy(p) ==
    IF p.cmd = "remove" THEN "remove"
    ELSE IF p.cmd = "gha" THEN "gha"
    ELSE IF p.cmd = "completion" THEN "completion"
    ELSE IF p.cmd = "__complete"
    THEN IF p.name = "remove" THEN "completeWorktrees" ELSE ""
    ELSE "create"

\* Mutant: the switch runs without looking at the parse error.
runHandlerNoErrCheck(g, p) ==
    IF g = "strict" THEN runSwitch(p) ELSE runSwitchLegacy(p)

\* run up to the call of the handler: the handler to call ("" for none) for
\* the outcome p of parseArgs.
runHandler(g, p) ==
    IF p.err # NoError THEN ""
    ELSE IF g = "strict" THEN runSwitch(p) ELSE runSwitchLegacy(p)

\* The errors a handler returns (collaborator and policy errors).
HandlerErrors == { <<"failed to create worktree: %w">>, <<"checks failed">> }

\* Mutant: the show-help outcome is reported like any other error.
mainExitHelpIsError(err) ==
    IF err # NoError
    THEN [stdout |-> <<>>, stderr |-> <<"error: %v\n", err>>, exit |-> 1]
    ELSE [stdout |-> <<>>, stderr |-> <<>>, exit |-> -1]

\* main's mapping of run's result to output and exit, strict generation.
mainExit(err) ==
    IF err # NoError
    THEN IF err = errShowHelp
         THEN [stdout |-> <<"usage">>, stderr |-> <<>>, exit |-> 0]
         ELSE [stdout |-> <<>>, stderr |-> <<"error: %v\n", err>>, exit |-> 1]
    ELSE [stdout |-> <<>>, stderr |-> <<>>, exit |-> -1]

\* main's mapping, legacy generation.
mainExitLegacy(err) ==
    IF err # NoError
    THEN IF err = errShowHelp
         THEN [stdout |-> <<"usage">>, stderr |-> <<>>, exit |-> 0]
         ELSE IF err = errShowHelpFail
         THEN [stdout |-> <<>>, stderr |-> <<"usage">>, exit |-> 1]
         ELSE [stdout |-> <<>>, stderr |-> <<"error: %v\n", err>>, exit |-> 1]
    ELSE [stdout |-> <<>>, stderr |-> <<>>, exit |-> -1]

----------------------------------------------------------------------------
(* remove and its environment *)

WorktreesDir == ".worktrees"

\* string(filepath.Separator)
Separator == "/"

\* wm.root
Root == "/repo"

\* strings.HasPrefix(s, prefix)
HasPrefix(s, prefix) == Len(s) >= Len(prefix) /\ SubSeq(s, 1, Len(prefix)) = prefix

\* filepath.Join(a, b) for clean a and a single element b: an empty element
\* is dropped
Join(a, b) == IF b = "" THEN a ELSE a \o Separator \o b

\* filepath.Join(wm.root, WorktreesDir)
WorktreesPath == Join(Root, WorktreesDir)

\* filepath.Join(wm.WorktreesPath(), name)
WorktreePath(name) == Join(WorktreesPath, name)

\* The working directories wt is started in; "" stands for a failing getwdFn.
CwdValues ==
    {"", Root, WorktreesPath, WorktreesPath \o "/bar", WorktreesPath \o "/bar/sub",
     WorktreesPath \o "/foo", WorktreesPath \o "/foo-bar", WorktreesPath \o "-old/bar",
     "/other"}

\* strings.SplitN(rel, sep, 2)[0]: rel up to its first separator
FirstComponent(rel) ==
    IF \E i \in 1..Len(rel) : SubSeq(rel, i, i) = Separator
    THEN SubSeq(rel, 1, (CHOOSE i \in 1..Len(rel) :
                            /\ SubSeq(rel, i, i) = Separator
                            /\ \A k \in 1..(i - 1) : SubSeq(rel, k, k) # Separator) - 1)
    ELSE rel

\* filepath.Rel(base, target) for a clean target below base
Rel(base, target) == SubSeq(target, Len(base) + 2, Len(target))

\* Mutant: the last path component is taken for the worktree name.
CurrentWorktreeNameLastComponent(c) ==
    IF c = "" THEN [name |-> "", err |-> NoError]
    ELSE IF ~HasPrefix(c, WorktreesPath \o Separator) THEN [name |-> "", err |-> NoError]
    ELSE [name |-> SubSeq(c, (CHOOSE i \in 1..Len(c) :
                                 /\ SubSeq(c, i, i) = Separator
                                 /\ \A k \in (i + 1)..Len(c) : SubSeq(c, k, k) # Separator) + 1,
                          Len(c)),
          err |-> NoError]

\* Mutant: the prefix is compared without the separator behind it.
CurrentWorktreeNameNoSeparator(c) ==
    IF c = "" THEN [name |-> "", err |-> NoError]
    ELSE IF ~HasPrefix(c, WorktreesPath) THEN [name |-> "", err |-> NoError]
    ELSE [name |-> FirstComponent(Rel(WorktreesPath, c)), err |-> NoError]

\* wm.CurrentWorktreeName(): the name and the error it returns; the name is
\* the first component below the worktrees directory, "" when the working
\* directory is not below it or unknown
CurrentWorktreeName(c) ==
    IF c = "" THEN [name |-> "", err |-> NoError]
    ELSE IF ~HasPrefix(c, WorktreesPath \o Separator) THEN [name |-> "", err |-> NoError]
    ELSE [name |-> FirstComponent(Rel(WorktreesPath, c)), err |-> NoError]

RootErrors == { <<"not in a git repository">> }
ErrNotInsideWorktree == <<"not inside a worktree (specify branch name)">>

\* gitCmd(wm.Root(), "worktree", "remove", worktreePath)
GitWorktreeRemove(name) ==
    [dir |-> Root, cmd |-> <<"worktree", "remove">>, target |-> WorktreePath(name)]

\* gitCmd(wm.Root(), "branch", "-D", name)
GitBranchDelete(name) ==
    [dir |-> Root, cmd |-> <<"branch", "-D">>, target |-> name]

\* Mutant: the prefix is compared without the separator behind it.
InsideWorktreeNoSeparator(c, name) ==
    c # "" /\ HasPrefix(c, WorktreePath(name))

\* cwd == worktreePath || strings.HasPrefix(cwd, worktreePath + separator)
InsideWorktree(c, name) ==
    c # "" /\ (c = WorktreePath(name) \/ HasPrefix(c, WorktreePath(name) \o Separator))

\* The name runRemove passes on: the one it was given, the detected one when
\* that is empty ("" when nothing is detected).
runRemoveName(name, c) == IF name = "" THEN CurrentWorktreeName(c).name ELSE name

MInit ==
    /\ grammar \in Grammars
    /\ args \in ArgLists
    /\ mpc = "start"
    /\ parsed = ParseError(NoError)
    /\ calls = <<>>
    /\ runErr = NoError
    /\ stdout = <<>>
    /\ stderr = <<>>
    /\ exitCode = -1
    /\ cwd = Root
    /\ rootErr = NoError
    /\ gitCalls = <<>>
    /\ rmName = ""
    /\ rmOut = <<>>

\* main started with a remove command, in any working directory
RemoveArgLists == {a \in ArgLists : Len(a) > 0 /\ a[1] = "remove"}
RInit ==
    /\ grammar \in Grammars
    /\ args \in RemoveArgLists
    /\ mpc = "start"
    /\ parsed = ParseError(NoError)
    /\ calls = <<>>
    /\ runErr = NoError
    /\ stdout = <<>>
    /\ stderr = <<>>
    /\ exitCode = -1
    /\ cwd \in CwdValues
    /\ rootErr = NoError
    /\ gitCalls = <<>>
    /\ rmName = ""
    /\ rmOut = <<>>

\* run(args) up to the handler call, or to its return when parsing failed
\* or no handler is called
Run ==
    /\ mpc = "start"
    /\ LET p == IF grammar = "strict" THEN parseArgs(args) ELSE parseArgsLegacy(args)
           h == runHandler(grammar, p)
       IN  /\ parsed' = p
           /\ calls' = IF h = "" THEN calls ELSE Append(calls, h)
           /\ runErr' = p.err
           /\ mpc' = IF h = "" THEN "returned" ELSE "handler"
           /\ rmName' = IF h = "remove" THEN p.name ELSE rmName
    /\ UNCHANGED <<grammar, args, stdout, stderr, exitCode, cwd, rootErr, gitCalls, rmOut>>

\* the handler returns nil or an error, and run returns it
HandlerReturn ==
    /\ mpc = "handler"
    /\ calls[Len(calls)] \notin {"runRemove", "remove"}
    /\ \E e \in HandlerErrors \cup {NoError} : runErr' = e
    /\ mpc' = "returned"
    /\ UNCHANGED <<grammar, args, parsed, calls, stdout, stderr, exitCode, rvars>>

\* runRemove(name) up to its call of remove, or to its return when the
\* repository or the worktree is not found
RunRemove ==
    /\ mpc = "handler"
    /\ calls[Len(calls)] = "runRemove"
    /\ IF parsed.name = ""
       THEN \E e \in RootErrors \cup {NoError} :
               /\ rootErr' = e
               /\ IF e # NoError
                  THEN /\ runErr' = e
                       /\ mpc' = "returned"
                       /\ UNCHANGED <<rmName, calls>>
                  ELSE IF runRemoveName(parsed.name, cwd) = ""
                  THEN /\ runErr' = ErrNotInsideWorktree
                       /\ mpc' = "returned"
                       /\ UNCHANGED <<rmName, calls>>
                  ELSE /\ rmName' = runRemoveName(parsed.name, cwd)
                       /\ calls' = Append(calls, "remove")
                       /\ UNCHANGED <<runErr, mpc>>
       ELSE /\ rmName' = runRemoveName(parsed.name, cwd)
            /\ calls' = Append(calls, "remove")
            /\ UNCHANGED <<runErr, mpc, rootErr>>
    /\ UNCHANGED <<grammar, args, parsed, stdout, stderr, exitCode, cwd, gitCalls, rmOut>>

\* Mutant: the branch is deleted although removing the worktree failed.
RemoveDeletesBranchAnyway ==
    /\ mpc = "handler"
    /\ calls[Len(calls)] = "remove"
    /\ \E e \in RootErrors \cup {NoError}, wtOk \in BOOLEAN, brOk \in BOOLEAN :
          /\ rootErr' = e
          /\ IF e # NoError
             THEN /\ runErr' = e
                  /\ UNCHANGED <<gitCalls, rmOut>>
             ELSE IF ~wtOk
             THEN /\ gitCalls' = gitCalls \o <<GitWorktreeRemove(rmName), GitBranchDelete(rmName)>>
                  /\ runErr' = <<"failed to remove worktree: %w">>
                  /\ UNCHANGED rmOut
             ELSE IF ~brOk
             THEN /\ gitCalls' = gitCalls \o <<GitWorktreeRemove(rmName), GitBranchDelete(rmName)>>
                  /\ runErr' = <<"failed to delete branch: %w">>
                  /\ UNCHANGED rmOut
             ELSE /\ gitCalls' = gitCalls \o <<GitWorktreeRemove(rmName), GitBranchDelete(rmName)>>
                  /\ runErr' = NoError
                  /\ rmOut' = IF InsideWorktree(cwd, rmName) THEN <<Root>> ELSE <<>>
    /\ mpc' = "returned"
    /\ UNCHANGED <<grammar, args, parsed, calls, stdout, stderr, exitCode, cwd, rmName>>

\* remove(name): the two git commands, each of which may fail
Remove ==
    /\ mpc = "handler"
    /\ calls[Len(calls)] = "remove"
    /\ \E e \in RootErrors \cup {NoError}, wtOk \in BOOLEAN, brOk \in BOOLEAN :
          /\ rootErr' = e
          /\ IF e # NoError
             THEN /\ runErr' = e
                  /\ UNCHANGED <<gitCalls, rmOut>>
             ELSE IF ~wtOk
             THEN /\ gitCalls' = Append(gitCalls, GitWorktreeRemove(rmName))
                  /\ runErr' = <<"failed to remove worktree: %w">>
                  /\ UNCHANGED rmOut
             ELSE IF ~brOk
             THEN /\ gitCalls' = gitCalls \o <<GitWorktreeRemove(rmName), GitBranchDelete(rmName)>>
                  /\ runErr' = <<"failed to delete branch: %w">>
                  /\ UNCHANGED rmOut
             ELSE /\ gitCalls' = gitCalls \o <<GitWorktreeRemove(rmName), GitBranchDelete(rmName)>>
                  /\ runErr' = NoError
                  /\ rmOut' = IF InsideWorktree(cwd, rmName) THEN <<Root>> ELSE <<>>
    /\ mpc' = "returned"
    /\ UNCHANGED <<grammar, args, parsed, calls, stdout, stderr, exitCode, cwd, rmName>>

\* main after run returned
MainExit ==
    /\ mpc = "returned"
    /\ LET m == IF grammar = "strict" THEN mainExit(runErr) ELSE mainExitLegacy(runErr)
       IN  /\ stdout' = m.stdout
           /\ stderr' = m.stderr
           /\ exitCode' = m.exit
    /\ mpc' = "exited"
    /\ UNCHANGED <<grammar, args, parsed, calls, runErr, rvars>>

----------------------------------------------------------------------------
(* The worktree handlers jump and create, and the filesystem they look at *)

ClaudeDir == ".claude"
ClaudePath == Join(Root, ClaudeDir)
HookPath(hookRelPath) == Join(Root, hookRelPath)

\* What os.Stat returns for a path: nil, an error for which os.IsNotExist
\* holds (ENOENT), or another error (ENOTDIR when a parent is a regular
\* file, EACCES when a parent may not be searched).
StatResults == {"nil", "ENOENT", "ENOTDIR"}
IsNotExist(st) == st = "ENOENT"

\* The filesystem as the handlers see it: the result of os.Stat for
\* <root>/.worktrees, <root>/.worktrees/<name>, <root>/.claude and the hook.
\* A path below a missing directory is missing, and nothing can be looked up
\* below a directory that cannot be looked up itself.
FileSystems ==
    { f \in [worktrees : StatResults, worktree : StatResults,
             claude : StatResults, hook : StatResults] :
        /\ f.worktrees = "ENOENT" => f.worktree = "ENOENT"
        /\ f.worktrees = "ENOTDIR" => f.worktree = "ENOTDIR"
        /\ f.claude # "ENOTDIR"
        /\ f.hook # "ENOTDIR" }

WorktreeNames == {"", "foo", "bar"}
HookPaths == {DefaultHook, "setup.sh"}

Step(op, arg) == [op |-> op, arg |-> arg]

\* wm.ValidateWorktreesDir()
ValidateWorktreesDir(f) ==
    IF IsNotExist(f.worktrees)
    THEN <<"%s directory does not exist (create it first)", WorktreesDir>>
    ELSE NoError

\* wm.ClaudeDirExists() and wm.HookExists(hookPath): err == nil
ClaudeDirExists(f) == f.claude = "nil"
HookExists(f) == f.hook = "nil"

\* gitCmd(wm.Root(), "worktree", "add", worktreePath, "-b", name)
GitWorktreeAdd(name) ==
    Step("git", <<Root, "worktree", "add", WorktreePath(name), "-b", name>>)

\* jump(name) once the repository root is known: what it does, prints on
\* standard output and returns
jumpFrom(name, c, f) ==
    IF name = ""
    THEN [steps |-> IF CurrentWorktreeName(c).name # ""
                    THEN <<Step("getwd", <<c>>), Step("stdout", <<Root>>)>>
                    ELSE <<Step("getwd", <<c>>)>>,
          out   |-> IF CurrentWorktreeName(c).name # "" THEN <<Root>> ELSE <<>>,
          err   |-> NoError]
    ELSE IF IsNotExist(f.worktree)
    THEN [steps |-> <<Step("stat", <<WorktreePath(name)>>)>>,
          out   |-> <<>>,
          err   |-> <<"worktree %q does not exist", name>>]
    ELSE [steps |-> <<Step("stat", <<WorktreePath(name)>>),
                      Step("stdout", <<WorktreePath(name)>>)>>,
          out   |-> <<WorktreePath(name)>>,
          err   |-> NoError]

\* Mutant: the worktree path is printed before the hook is run.
createFromPrintsBeforeHook(name, hookPath, f, gitOk, linkOk, hookOk) ==
    LET checked == <<Step("stat", <<WorktreesPath>>)>>
        added   == checked \o <<GitWorktreeAdd(name)>>
        linked  == added \o
                   (IF ClaudeDirExists(f)
                    THEN <<Step("symlink", <<ClaudePath, Join(WorktreePath(name), ClaudeDir)>>)>>
                    ELSE <<>>)
        printed == linked \o <<Step("stdout", <<WorktreePath(name)>>)>>
        hooked  == printed \o
                   (IF HookExists(f)
                    THEN <<Step("runHook", <<HookPath(hookPath), WorktreePath(name)>>)>>
                    ELSE <<>>)
    IN  IF ValidateWorktreesDir(f) # NoError
        THEN [steps |-> checked, out |-> <<>>, err |-> ValidateWorktreesDir(f)]
        ELSE IF ~gitOk
        THEN [steps |-> added, out |-> <<>>, err |-> <<"failed to create worktree: %w">>]
        ELSE IF ClaudeDirExists(f) /\ ~linkOk
        THEN [steps |-> linked, out |-> <<>>,
              err |-> <<"failed to create %s/ symlink: %w", ClaudeDir>>]
        ELSE IF HookExists(f) /\ ~hookOk
        THEN [steps |-> hooked, out |-> <<WorktreePath(name)>>, err |-> <<"hook failed: %w">>]
        ELSE [steps |-> hooked, out |-> <<WorktreePath(name)>>, err |-> NoError]

\* create(name, hookPath) once the repository root is known: what it does,
\* prints on standard output and returns, given how the git command, the
\* symlink and the hook end
createFrom(name, hookPath, f, gitOk, linkOk, hookOk) ==
    LET checked == <<Step("stat", <<WorktreesPath>>)>>
        added   == checked \o
                   <<Step("stderr", <<"Creating worktree at %s/%s with branch %s\n",
                                      WorktreesDir, name, name>>),
                     GitWorktreeAdd(name)>>
        linked  == added \o <<Step("stat", <<ClaudePath>>)>> \o
                   (IF ClaudeDirExists(f)
                    THEN <<Step("stderr", <<"Creating symlink to %s/ directory...\n", ClaudeDir>>),
                           Step("symlink", <<ClaudePath, Join(WorktreePath(name), ClaudeDir)>>)>>
                    ELSE <<>>)
        hooked  == linked \o <<Step("stat", <<HookPath(hookPath)>>)>> \o
                   (IF HookExists(f)
                    THEN <<Step("stderr", <<"Running hook: %s\n", hookPath>>),
                           Step("runHook", <<HookPath(hookPath), WorktreePath(name)>>)>>
                    ELSE <<>>)
    IN  IF ValidateWorktreesDir(f) # NoError
        THEN [steps |-> checked, out |-> <<>>, err |-> ValidateWorktreesDir(f)]
        ELSE IF ~gitOk
        THEN [steps |-> added, out |-> <<>>, err |-> <<"failed to create worktree: %w">>]
        ELSE IF ClaudeDirExists(f) /\ ~linkOk
        THEN [steps |-> linked, out |-> <<>>,
              err |-> <<"failed to create %s/ symlink: %w", ClaudeDir>>]
        ELSE IF HookExists(f) /\ ~hookOk
        THEN [steps |-> hooked, out |-> <<>>, err |-> <<"hook failed: %w">>]
        ELSE [steps |-> hooked \o
                        <<Step("stderr", <<"Done! Worktree ready at %s/%s\n", WorktreesDir, name>>),
                          Step("stdout", <<WorktreePath(name)>>)>>,
              out   |-> <<WorktreePath(name)>>,
              err   |-> NoError]

WInit ==
    /\ wpc = "start"
    /\ wName \in WorktreeNames
    /\ wHook \in HookPaths
    /\ fsys \in FileSystems
    /\ steps = <<>>
    /\ wOut = <<>>
    /\ wErr = NoError

\* jump(name)
Jump ==
    /\ wpc = "start"
    /\ \E e \in RootErrors \cup {NoError} :
          /\ rootErr' = e
          /\ \E r \in {jumpFrom(wName, cwd, fsys)} :
                IF e # NoError
                THEN /\ wErr' = e
                     /\ UNCHANGED <<steps, wOut>>
                ELSE /\ steps' = r.steps
                     /\ wOut' = r.out
                     /\ wErr' = r.err
    /\ wpc' = "jumped"
    /\ UNCHANGED <<wName, wHook, fsys, cwd, gitCalls, rmName, rmOut,
                   grammar, args, mpc, parsed, calls, runErr, stdout, stderr, exitCode>>

\* create(name, hookPath)
Create ==
    /\ wpc = "start"
    /\ \E e \in RootErrors \cup {NoError}, gitOk \in BOOLEAN, linkOk \in BOOLEAN,
          hookOk \in BOOLEAN :
          /\ rootErr' = e
          /\ \E r \in {createFrom(wName, wHook, fsys, gitOk, linkOk, hookOk)} :
                IF e # NoError
                THEN /\ wErr' = e
                     /\ UNCHANGED <<steps, wOut>>
                ELSE /\ steps' = r.steps
                     /\ wOut' = r.out
                     /\ wErr' = r.err
    /\ wpc' = "created"
    /\ UNCHANGED <<wName, wHook, fsys, cwd, gitCalls, rmName, rmOut,
                   grammar, args, mpc, parsed, calls, runErr, stdout, stderr, exitCode>>

----------------------------------------------------------------------------

(* The shell wrappers wt.sh and wt.fish around the binary *)

\* The argument lists the wrapper function is called with.
ShellArgLists ==
    { <<>>, <<"">>, <<"--help">>, <<"list">>, <<"gha">>, <<"completion", "foo">>,
      <<"__complete", "remove">>, <<"create", "foo">>, <<"jump">>, <<"jump", "foo">>,
      <<"remove">>, <<"remove", "foo">> }

\* The paths for which `test -d` can hold: the repository root, a worktree,
\* and a directory of the shell's working directory named like a worktree.
DirCandidates == {Root, WorktreePath("foo"), "foo"}
ShellHome == "/home"

\* What a handler can write on standard output before it returns nil.
HandlerOutputs(p) ==
    IF p.cmd = "list" THEN {<<>>, <<"foo">>, <<"foo", "bar">>}
    ELSE IF p.cmd = "gha"
    THEN {<<"Monitoring GitHub Actions for current branch's PR...", "summary",
            "All checks passed!">>}
    ELSE IF p.cmd = "completion" THEN {<<"script">>}
    ELSE IF p.cmd = "__complete" THEN {<<>>, <<"foo">>, <<"foo", "bar">>}
    ELSE IF p.cmd = "create" THEN {<<WorktreePath(p.name)>>}
    ELSE IF p.cmd = "jump"
    THEN IF p.name = "" THEN {<<>>, <<Root>>} ELSE {<<WorktreePath(p.name)>>}
    ELSE IF p.cmd = "remove" THEN {<<>>, <<Root>>}
    ELSE {<<>>}

\* What a handler has written on standard output when it returns an error.
HandlerFailureOutputs(p) ==
    IF p.cmd = "gha"
    THEN {<<"Monitoring GitHub Actions for current branch's PR...">>,
          <<"Monitoring GitHub Actions for current branch's PR...", "summary",
            "Some checks failed!", "Check details:">>}
    ELSE {<<>>}

ExitStatus(e) == IF e = -1 THEN 0 ELSE e

\* One run of the binary: its standard output and its exit status.
BinaryRuns(a) ==
    LET p == parseArgs(a)
    IN  IF p.err # NoError
        THEN {[out |-> mainExit(p.err).stdout, exit |-> ExitStatus(mainExit(p.err).exit)]}
        ELSE {[out |-> o, exit |-> 0] : o \in HandlerOutputs(p)}
             \cup {[out |-> o, exit |-> 1] : o \in HandlerFailureOutputs(p)}

\* $(...) in bash and "$dir" in fish: the lines of the output joined by a
\* newline (bash) or by a space (fish), without a final newline.
RECURSIVE JoinLines(_, _)
JoinLines(lines, sep) ==
    IF lines = <<>> THEN ""
    ELSE IF Len(lines) = 1 THEN lines[1]
    ELSE lines[1] \o sep \o JoinLines(Tail(lines), sep)

\* cd <dir> from the working directory c
ChangeDir(c, dir) == IF HasPrefix(dir, Separator) THEN dir ELSE Join(c, dir)

\* wt.sh: case "$1" in completion|__complete|"")
PassThroughSh(a) == a = <<>> \/ a[1] \in {"completion", "__complete", ""}

\* wt.fish: test (count $argv) -eq 0, and case completion __complete
PassThroughFish(a) == a = <<>> \/ a[1] \in {"completion", "__complete"}

\* The wrapper function after the binary was found and has run: what reaches
\* the terminal from the binary's standard output, the shell's working
\* directory and the function's status.
wrap(pass, sep, cdFailStatus, run, dirs, c, cdOk) ==
    IF pass
    THEN [terminal |-> run.out, cwd |-> c, status |-> run.exit]
    ELSE IF run.exit = 0 /\ JoinLines(run.out, sep) # "" /\ JoinLines(run.out, sep) \in dirs
    THEN IF cdOk
         THEN [terminal |-> <<>>, cwd |-> ChangeDir(c, JoinLines(run.out, sep)),
               status |-> run.exit]
         ELSE [terminal |-> <<>>, cwd |-> c,
               status |-> IF cdFailStatus = -1 THEN run.exit ELSE cdFailStatus]
    ELSE [terminal |-> <<>>, cwd |-> c, status |-> run.exit]

SInit ==
    /\ shpc = "start"
    /\ shArgs \in ShellArgLists
    /\ binFound \in BOOLEAN
    /\ shDirs \in SUBSET DirCandidates
    /\ binOut = <<>>
    /\ binExit = -1
    /\ terminal = <<>>
    /\ shStderr = <<>>
    /\ shCwd = ShellHome
    /\ shStatus = -1

\* the function wt of wt.sh
WtSh ==
    /\ shpc = "start"
    /\ IF ~binFound
       THEN /\ shStderr' = <<"error: wt binary not found in PATH">>
            /\ shStatus' = 1
            /\ UNCHANGED <<binOut, binExit, terminal, shCwd>>
       ELSE \E run \in BinaryRuns(shArgs), cdOk \in BOOLEAN :
            \E w \in {wrap(PassThroughSh(shArgs), "\n", 1, run, shDirs, shCwd, cdOk)} :
               /\ binOut' = run.out
               /\ binExit' = run.exit
               /\ terminal' = w.terminal
               /\ shCwd' = w.cwd
               /\ shStatus' = w.status
               /\ UNCHANGED shStderr
    /\ shpc' = "bash"
    /\ UNCHANGED <<shArgs, binFound, shDirs>>

\* the function wt of wt.fish
WtFish ==
    /\ shpc = "start"
    /\ IF ~binFound
       THEN /\ shStderr' = <<"error: wt binary not found in PATH">>
            /\ shStatus' = 1
            /\ UNCHANGED <<binOut, binExit, terminal, shCwd>>
       ELSE \E run \in BinaryRuns(shArgs), cdOk \in BOOLEAN :
            \E w \in {wrap(PassThroughFish(shArgs), " ", -1, run, shDirs, shCwd, cdOk)} :
               /\ binOut' = run.out
               /\ binExit' = run.exit
               /\ terminal' = w.terminal
               /\ shCwd' = w.cwd
               /\ shStatus' = w.status
               /\ UNCHANGED shStderr
    /\ shpc' = "fish"
    /\ UNCHANGED <<shArgs, binFound, shDirs>>

----------------------------------------------------------------------------

(* Specifications.  Each fixes the variables of the other parts. *)

AIdle == checks = <<>> /\ result = CheckResultPending /\ summary = <<>>
         /\ stats = ZeroStats /\ apc = "off"
GIdle == gpc = "off" /\ GHATimeout = DefaultGHATimeout /\ elapsed = 0 /\ queries = 0
         /\ checkedAt = 0 /\ provErr = NoError
         /\ sleeps = 0 /\ sleepArgs = <<>> /\ pendings = 0 /\ ghaErr = NoError
         /\ out = <<>> /\ details = <<>>
MIdle == grammar = "strict" /\ args = <<>> /\ mpc = "off" /\ parsed = ParseError(NoError)
         /\ calls = <<>> /\ runErr = NoError /\ stdout = <<>> /\ stderr = <<>>
         /\ exitCode = -1 /\ cwd = Root /\ rootErr = NoError /\ gitCalls = <<>>
         /\ rmName = "" /\ rmOut = <<>>

WIdle == wpc = "off" /\ wName = "" /\ wHook = DefaultHook
         /\ fsys = [worktrees |-> "nil", worktree |-> "nil", claude |-> "nil", hook |-> "nil"]
         /\ steps = <<>> /\ wOut = <<>> /\ wErr = NoError

SIdle == shpc = "off" /\ shArgs = <<>> /\ binFound = TRUE /\ shDirs = {}
         /\ binOut = <<>> /\ binExit = -1 /\ terminal = <<>> /\ shStderr = <<>>
         /\ shCwd = ShellHome /\ shStatus = -1

\* main(): grammar, run, exit
Init == MInit /\ AIdle /\ GIdle /\ WIdle /\ SIdle
Next ==
    \/ Run /\ UNCHANGED <<avars, gvars, wvars, svars>>
    \/ HandlerReturn /\ UNCHANGED <<avars, gvars, wvars, svars>>
    \/ RunRemove /\ UNCHANGED <<avars, gvars, wvars, svars>>
    \/ Remove /\ UNCHANGED <<avars, gvars, wvars, svars>>
    \/ MainExit /\ UNCHANGED <<avars, gvars, wvars, svars>>
Spec == Init /\ [][Next]_vars

\* main() started with a remove command
InitRemove == RInit /\ AIdle /\ GIdle /\ WIdle /\ SIdle
NextRemove ==
    \/ Run /\ UNCHANGED <<avars, gvars, wvars, svars>>
    \/ RunRemove /\ UNCHANGED <<avars, gvars, wvars, svars>>
    \/ Remove /\ UNCHANGED <<avars, gvars, wvars, svars>>
    \/ MainExit /\ UNCHANGED <<avars, gvars, wvars, svars>>
SpecRemove == InitRemove /\ [][NextRemove]_vars

\* one call of the aggregator
InitAnalyze == AInit /\ GIdle /\ MIdle /\ WIdle /\ SIdle
NextAnalyze ==
    \/ Analyze /\ UNCHANGED <<gvars, mvars, wvars, svars>>
    \/ AnalyzeInline /\ UNCHANGED <<gvars, mvars, wvars, svars>>
    \/ Count /\ UNCHANGED <<gvars, mvars, wvars, svars>>
    \/ PrintDetails /\ UNCHANGED <<gpc, GHATimeout, elapsed, checkedAt, provErr, queries,
                                    sleeps, sleepArgs, pendings, ghaErr, out, mvars, wvars, svars>>
    \/ PrintDetailsInline /\ UNCHANGED <<gpc, GHATimeout, elapsed, checkedAt, provErr, queries,
                                          sleeps, sleepArgs, pendings, ghaErr, out, mvars, wvars, svars>>
SpecAnalyze == InitAnalyze /\ [][NextAnalyze]_vars

\* one call of gha()
InitGha == GInit /\ MIdle /\ WIdle /\ SIdle /\ checks = <<>> /\ result = CheckResultPending
           /\ summary = <<>> /\ stats = ZeroStats /\ apc = "off"
NextGha ==
    \/ GhaStart /\ UNCHANGED <<stats, apc, mvars, wvars, svars>>
    \/ GhaTimeout /\ UNCHANGED <<stats, apc, mvars, wvars, svars>>
    \/ GhaQuery /\ UNCHANGED <<stats, apc, mvars, wvars, svars>>
    \/ GhaProviderError /\ UNCHANGED <<stats, apc, mvars, wvars, svars>>
    \/ GhaProviderStatus /\ UNCHANGED <<stats, apc, mvars, wvars, svars>>
    \/ GhaSleepReturn /\ UNCHANGED <<stats, apc, mvars, wvars, svars>>
SpecGha == InitGha /\ [][NextGha]_vars

\* one call of gha() under the clock of time.Sleep; the loop is sequential
\* and every call it makes returns, so it always takes its next step
NextClock ==
    \/ ClockStart /\ UNCHANGED <<stats, apc, mvars, wvars, svars>>
    \/ ClockTimeout /\ UNCHANGED <<stats, apc, mvars, wvars, svars>>
    \/ ClockQuery /\ UNCHANGED <<stats, apc, mvars, wvars, svars>>
    \/ ClockProviderError /\ UNCHANGED <<stats, apc, mvars, wvars, svars>>
    \/ ClockProviderStatus /\ UNCHANGED <<stats, apc, mvars, wvars, svars>>
    \/ ClockSleepReturn /\ UNCHANGED <<stats, apc, mvars, wvars, svars>>
SpecClock == InitGha /\ [][NextClock]_vars /\ WF_vars(NextClock)

------------------------------------------------------------\* one call of jump or of create, from any working directory
InitWorktree ==
    /\ WInit /\ AIdle /\ GIdle /\ SIdle
    /\ grammar = "strict" /\ args = <<>> /\ mpc = "off" /\ parsed = ParseError(NoError)
    /\ calls = <<>> /\ runErr = NoError /\ stdout = <<>> /\ stderr = <<>>
    /\ exitCode = -1 /\ cwd \in CwdValues /\ rootErr = NoError /\ gitCalls = <<>>
    /\ rmName = "" /\ rmOut = <<>>
NextWorktree ==
    \/ Jump /\ UNCHANGED <<avars, gvars, svars>>
    \/ Create /\ UNCHANGED <<avars, gvars, svars>>
SpecWorktree == InitWorktree /\ [][NextWorktree]_vars

\* one call of the shell function wt
InitWrapper == SInit /\ AIdle /\ GIdle /\ MIdle /\ WIdle
NextWrapper ==
    \/ WtSh /\ UNCHANGED <<avars, gvars, mvars, wvars>>
    \/ WtFish /\ UNCHANGED <<avars, gvars, mvars, wvars>>
SpecWrapper == InitWrapper /\ [][NextWrapper]_vars

----------------
(* Properties of the aggregator, checked under SpecAnalyze *)

Analyzed == apc \in {"analyzed", "analyzedInline"}
PassingConclusions == {"SUCCESS", "NEUTRAL", "SKIPPED"}
SomeNotCompleted == \E i \in 1..Len(checks) : checks[i].Status # "COMPLETED"
AllCompleted == \A i \in 1..Len(checks) : checks[i].Status = "COMPLETED"

\* C1: whenever the collection handed to analyzeChecks (either generation)
\* holds a record whose status is not COMPLETED, the result is Pending,
\* whatever the other records hold.
C1_PendingDominates ==
    (Analyzed /\ SomeNotCompleted) => result = CheckResultPending

\* C1 witness: a collection with a running check beside one that is
\* COMPLETED with FAILURE has been analyzed.
C1_Witness ==
    /\ apc = "analyzed"
    /\ SomeNotCompleted
    /\ \E j \in 1..Len(checks) :
          checks[j].Status = "COMPLETED" /\ checks[j].Conclusion \in {"FAILURE", "CANCELLED"}
    /\ result = CheckResultPending

\* C2: for a non-empty collection whose records are all COMPLETED the result
\* is Failure when some conclusion lies outside {SUCCESS, NEUTRAL, SKIPPED}
\* and Success otherwise.
C2_AllCompletedVerdict ==
    (Analyzed /\ Len(checks) > 0 /\ AllCompleted) =>
        result = IF \E i \in 1..Len(checks) : checks[i].Conclusion \notin PassingConclusions
                 THEN CheckResultFailure
                 ELSE CheckResultSuccess

\* C2 witness: an all-COMPLETED collection whose only offending conclusion
\* is an empty or undocumented value has been judged Failure.
C2_Witness ==
    /\ apc = "analyzed"
    /\ Len(checks) > 0
    /\ AllCompleted
    /\ \E i \in 1..Len(checks) : checks[i].Conclusion \in {"", "TIMED_OUT"}
    /\ \A i \in 1..Len(checks) : checks[i].Conclusion \notin {"FAILURE", "CANCELLED"}
    /\ result = CheckResultFailure

\* C4: countCheckStatuses puts every record into exactly one bucket:
\* Passed + Failed + Pending = Total = number of records, each bucket holds
\* the records of its class, and the completed figure of the summary equals
\* Total - Pending.
C4_BucketsPartition ==
    /\ apc = "counted" =>
          /\ stats.Passed + stats.Failed + stats.Pending = stats.Total
          /\ stats.Total = Len(checks)
          /\ stats.Pending =
                Cardinality({i \in 1..Len(checks) : checks[i].Status # "COMPLETED"})
          /\ stats.Passed =
                Cardinality({i \in 1..Len(checks) : /\ checks[i].Status = "COMPLETED"
                                                    /\ checks[i].Conclusion \in PassingConclusions})
    /\ (Analyzed /\ Len(checks) > 0) =>
          /\ summary[3] = Len(checks)
          /\ summary[2] = summary[3] - summary[6]
          /\ summary[2] = summary[4] + summary[5]

\* C4 witness: a count over a collection with a pending record and a
\* completed record of undocumented conclusion.
C4_Witness ==
    /\ apc = "counted"
    /\ stats.Pending > 0
    /\ stats.Failed > 0
    /\ \E i \in 1..Len(checks) :
          checks[i].Status = "COMPLETED" /\ checks[i].Conclusion = "TIMED_OUT"

----------------------------------------------------------------------------
(* Properties of the polling loop, checked under SpecGha *)

Returned == gpc = "done"
IsTimeoutError(e) == Len(e) = 2 /\ e[1] = "timeout: checks did not complete within %v"

\* gha reports "checks failed" only for an answer whose checks are all
\* COMPLETED (the consequence of C1 for the loop).
GhaFailsOnlyWhenAllCompleted ==
    (Returned /\ ghaErr = <<"checks failed">>) => (Len(checks) > 0 /\ AllCompleted)

\* C3: an empty check collection is analyzed to Pending with the summary
\* "No checks found yet..."; the cycle that received it ends in one call
\* of sleepFn and gha does not return in it, and gha never returns success
\* with an empty collection as the last answer.
C3_EmptyIsPending ==
    /\ [](Returned /\ ghaErr = NoError => checks # <<>>)
    /\ [][(gpc = "query" /\ provErr' = NoError /\ gpc' # "query" /\ checks' = <<>>) =>
            /\ result' = CheckResultPending
            /\ summary' = <<"No checks found yet...">>
            /\ gpc' = "sleep"
            /\ sleeps' = sleeps + 1
            /\ ghaErr' = NoError]_vars

\* C3 witness: gha sleeps after an empty answer and polls again.
C3_Witness ==
    /\ gpc = "query"
    /\ queries = 2
    /\ checks = <<>>
    /\ summary = <<"No checks found yet...">>
    /\ result = CheckResultPending
    /\ sleeps = 1

\* C5: sleepFn is called once per Pending answer and never otherwise, each
\* time with the poll interval of 30 seconds; when gha returns on a terminal
\* answer or a provider error after n Pending answers it has queried the
\* provider n + 1 times and slept n times.
C5_SleepPerPendingCycle ==
    /\ sleeps = pendings
    /\ Len(sleepArgs) = sleeps
    /\ \A i \in 1..Len(sleepArgs) : sleepArgs[i] = 30
    /\ gpc = "sleep" => (result = CheckResultPending /\ queries = sleeps)
    /\ (Returned /\ ~IsTimeoutError(ghaErr)) =>
          (queries = pendings + 1 /\ sleeps = pendings)

\* C5 witness: the documented scenario, two Pending answers and then
\* Success: three queries, two sleeps.
C5_Witness ==
    /\ Returned
    /\ ghaErr = NoError
    /\ result = CheckResultSuccess
    /\ pendings = 2
    /\ queries = 3
    /\ sleeps = 2

\* C6: the step in which the provider call fails ends gha with that error
\* unchanged, without a sleep, a query or any output; nothing happens after
\* it; and a cycle is followed by another only when its aggregate is Pending.
C6_ProviderErrorIsFatal ==
    /\ [](provErr # NoError => (Returned /\ ghaErr = provErr /\ details = <<>>))
    /\ [][(provErr = NoError /\ provErr' # NoError) =>
            /\ gpc' = "done"
            /\ ghaErr' = provErr'
            /\ queries' = queries
            /\ sleeps' = sleeps
            /\ out' = out
            /\ details' = details]_vars
    /\ [][provErr # NoError => UNCHANGED vars]_vars
    /\ [][(gpc = "query" /\ gpc' = "sleep") =>
            (provErr' = NoError /\ result' = CheckResultPending)]_vars

\* C6 witness: the provider fails in the second cycle.
C6_Witness ==
    /\ Returned
    /\ provErr = <<"no PR found for current branch">>
    /\ ghaErr = provErr
    /\ queries = 2
    /\ sleeps = 1

\* C7: every cycle starts with the timeout check: with the elapsed time
\* above the timeout gha returns the timeout error naming the configured
\* timeout, without a query and without output; a query starts only while
\* the elapsed time is within the timeout; the timeout error is not the
\* "checks failed" error.
C7_TimeoutCheckedFirst ==
    /\ [][(gpc = "loop" /\ elapsed > GHATimeout) =>
            /\ gpc' = "done"
            /\ ghaErr' = <<"timeout: checks did not complete within %v", GHATimeout>>
            /\ ghaErr' # <<"checks failed">>
            /\ queries' = queries
            /\ out' = out]_vars
    /\ [][(gpc = "loop" /\ elapsed <= GHATimeout) => ~IsTimeoutError(ghaErr')]_vars
    /\ [][queries' # queries => (queries' = queries + 1 /\ elapsed <= GHATimeout)]_vars

\* C7 witness: gha returned the timeout error after two full cycles.
C7_Witness ==
    /\ Returned
    /\ ghaErr = <<"timeout: checks did not complete within %v", 60>>
    /\ queries = 2
    /\ elapsed > GHATimeout

\* C8 as stated: gha never returns success once the elapsed time exceeds
\* the timeout.
C8_NoSuccessPastDeadline ==
    (Returned /\ elapsed > GHATimeout) => ghaErr # NoError

\* C8 amended: gha returns success only from a cycle whose timeout check
\* read an elapsed time within the timeout; the answer of the query started
\* by that cycle decides the outcome also when it arrives after the deadline.
C8_SuccessOnlyFromCycleStartedInTime ==
    (Returned /\ ghaErr = NoError) =>
        (checkedAt <= GHATimeout /\ result = CheckResultSuccess /\ provErr = NoError)

\* C8 witness: a query started within the timeout, its Success answer came
\* after the deadline, and gha returned success.
C8_Witness ==
    /\ Returned
    /\ ghaErr = NoError
    /\ checkedAt <= GHATimeout
    /\ elapsed > GHATimeout
    /\ result = CheckResultSuccess

----------------------------------------------------------------------------
(* Properties of the grammar, run and main, checked under Spec *)

HelpTokens == {"-h", "--help"}
HasHelp == \E i \in 1..Len(args) : args[i] \in HelpTokens
RunStarted == mpc # "start"

\* C9: an argument list with -h or --help at any position parses to the
\* show-help outcome in both generations; no handler is called, and main
\* prints the usage text on standard output and exits 0.
C9_HelpAnywhere ==
    (RunStarted /\ HasHelp) =>
        /\ parsed.err = <<"show help">>
        /\ runErr = <<"show help">>
        /\ calls = <<>>
        /\ mpc # "handler"
        /\ mpc = "exited" => (stdout = <<"usage">> /\ stderr = <<>> /\ exitCode = 0)

\* C9 witness: help in the value position of --hook after a command.
C9_Witness ==
    /\ mpc = "exited"
    /\ args = <<"create", "--hook", "-h">>
    /\ exitCode = 0
    /\ stdout = <<"usage">>

\* C10: `create` without a positional fails with "branch name required"
\* and exit status 1; after any parse error run returns that error without
\* having called a handler.
C10_ParseErrorBeforeAnyCall ==
    /\ (RunStarted /\ args = <<"create">>) =>
          /\ parsed.err = <<"branch name required">>
          /\ mpc = "exited" =>
                (exitCode = 1 /\ stderr = <<"error: %v\n", <<"branch name required">>>>)
    /\ (RunStarted /\ parsed.err # NoError) =>
          /\ calls = <<>>
          /\ mpc # "handler"
          /\ runErr = parsed.err
          /\ (mpc = "exited" /\ parsed.err # <<"show help">>) => exitCode = 1

\* C10 witness: `wt create` has exited.
C10_Witness ==
    /\ mpc = "exited"
    /\ args = <<"create">>
    /\ parsed.err = <<"branch name required">>
    /\ exitCode = 1
    /\ calls = <<>>

----------------------------------------------------------------------------
(* Properties of the option scan and the positionals, checked under Spec *)

HelpFree == Len(args) > 0 /\ ~HasHelp
HookIsLast == Len(args) > 0 /\ args[Len(args)] = "--hook"
ErrHookNeedsPath == <<"--hook requires a path argument">>

\* The first token names a command of the running generation.
FirstIsCommand ==
    /\ Len(args) > 0
    /\ IF grammar = "strict" THEN args[1] \in validCommands
                             ELSE args[1] \in validCommandsLegacy

\* Go index at which the option scan starts.
ScanStart == IF FirstIsCommand THEN 1 ELSE 0

\* Every token between the start of the scan and Go index n belongs to a
\* complete `--hook <value>` pair.
OnlyHookPairsBefore(n) ==
    /\ n >= ScanStart
    /\ (n - ScanStart) % 2 = 0
    /\ \A i \in ScanStart..(n - 1) : (i - ScanStart) % 2 = 0 => At(args, i) = "--hook"

C12_StrictUnknownCommand ==
    (RunStarted /\ grammar = "strict" /\ HelpFree /\ args[1] \notin validCommands) =>
        /\ parsed.err = <<"unknown command: %s", args[1]>>
        /\ parsed.cmd # "create"
        /\ runErr = parsed.err
        /\ calls = <<>>
        /\ mpc # "handler"
        /\ mpc = "exited" =>
              /\ exitCode = 1
              /\ stderr = <<"error: %v\n", <<"unknown command: %s", args[1]>>>>

\* C12 witness: `wt foo` has exited in the strict generation.
C12_Witness ==
    /\ mpc = "exited"
    /\ grammar = "strict"
    /\ args = <<"foo">>
    /\ parsed.err = <<"unknown command: %s", "foo">>
    /\ calls = <<>>
    /\ exitCode = 1

ResolvedCommand == IF FirstIsCommand THEN args[1] ELSE "create"
CommandResolved == HelpFree /\ (grammar = "strict" => FirstIsCommand)

\* The option scan over the tokens after the command.
Scan == parseHookFlag(args, ScanStart, DefaultHook)

\* Number of positional arguments a command takes at most.
Permitted(c) == IF c \in {"list", "gha"} THEN 0 ELSE 1

\* The option scan succeeded and left more tokens than the command takes;
\* FirstResidual is the first token too many.
HasResidual ==
    /\ CommandResolved
    /\ Scan.err = NoError
    /\ Len(args) - Scan.idx > Permitted(ResolvedCommand)
FirstResidual == At(args, Scan.idx + Permitted(ResolvedCommand))

----------------------------------------------------------------------------
(* Properties of remove, checked under SpecRemove *)

HandlerDone == mpc \in {"returned", "exited"}
RemoveCalled == \E i \in 1..Len(calls) : calls[i] = "remove"

\* `remove` followed by options only, and by options and exactly one token.
RemoveNoPositional ==
    HelpFree /\ args[1] = "remove" /\ Scan.err = NoError /\ Scan.idx >= Len(args)
RemoveOnePositional ==
    HelpFree /\ args[1] = "remove" /\ Scan.err = NoError /\ Scan.idx = Len(args) - 1
GivenName == At(args, Scan.idx)

\* The working directory is known and lies in or below a directory of the
\* worktrees directory; CwdWorktree is that directory's name.
CwdInWorktree ==
    cwd \in {"/repo/.worktrees/bar", "/repo/.worktrees/bar/sub", "/repo/.worktrees/foo",
             "/repo/.worktrees/foo-bar"}
CwdWorktree == IF cwd = "/repo/.worktrees/foo" THEN "foo"
               ELSE IF cwd = "/repo/.worktrees/foo-bar" THEN "foo-bar"
               ELSE "bar"

\* The git commands that remove worktree w and its branch.
RemovalOf(w) ==
    << [dir |-> "/repo", cmd |-> <<"worktree", "remove">>,
        target |-> IF w = "" THEN "/repo/.worktrees" ELSE "/repo/.worktrees/" \o w],
       [dir |-> "/repo", cmd |-> <<"branch", "-D">>, target |-> w] >>
IsPrefix(p, q) == Len(p) <= Len(q) /\ SubSeq(q, 1, Len(p)) = p

\* The git commands issued are those of removing w, as far as they got, and
\* all of them when run returned nil.
RemovesExactly(w) ==
    /\ IsPrefix(gitCalls, RemovalOf(w))
    /\ runErr = NoError => gitCalls = RemovalOf(w)
    /\ RemoveCalled => rmName = w

\* C15 as stated, for the generation whose remove takes an optional name:
\* `remove` without a positional parses to name ""; the dispatcher then
\* removes exactly the worktree containing the working directory, or fails
\* with "not inside a worktree (specify branch name)" without a git command;
\* a name given explicitly is the one removed.
C15_RemoveDetectsOnlyWithoutName ==
    grammar = "strict" =>
    /\ (RunStarted /\ RemoveNoPositional) =>
          parsed = Parsed("remove", "", Scan.hookPath)
    /\ (HandlerDone /\ RemoveNoPositional /\ rootErr = NoError) =>
          IF CwdInWorktree
          THEN RemoveCalled /\ RemovesExactly(CwdWorktree)
          ELSE runErr = ErrNotInsideWorktree /\ gitCalls = <<>>
    /\ (HandlerDone /\ RemoveOnePositional /\ RemoveCalled) => rmName = GivenName

\* C15: in the strict generation `remove` without a positional parses to
\* name "" (the legacy generation answers "branch name required"); for an
\* empty name, absent or given as an empty token, the dispatcher removes
\* exactly the worktree containing the working directory, and when the
\* working directory is in none it returns "not inside a worktree (specify
\* branch name)" and calls neither remove nor gitCmd.  A non-empty name
\* given explicitly is the one removed, wherever the working directory is.
C15_RemoveDetectsWhenNameEmpty ==
    /\ (RunStarted /\ RemoveNoPositional) =>
          IF grammar = "strict"
          THEN parsed = Parsed("remove", "", Scan.hookPath)
          ELSE parsed.err = <<"branch name required">> /\ calls = <<>>
    /\ (HandlerDone /\ grammar = "strict" /\ parsed.err = NoError /\ parsed.name = "") =>
          IF CwdInWorktree
          THEN /\ RemovesExactly(CwdWorktree)
               /\ rootErr = NoError => (RemoveCalled /\ gitCalls # <<>>)
          ELSE /\ runErr = IF rootErr # NoError THEN rootErr ELSE ErrNotInsideWorktree
               /\ gitCalls = <<>>
               /\ ~RemoveCalled
    /\ (HandlerDone /\ RemoveOnePositional /\ GivenName # "") =>
          /\ parsed = Parsed("remove", GivenName, Scan.hookPath)
          /\ RemoveCalled
          /\ RemovesExactly(GivenName)
    /\ (HandlerDone /\ RemoveOnePositional /\ grammar = "legacy") =>
          RemoveCalled /\ rmName = GivenName

\* C15 witness: `wt remove` run two levels below the worktrees directory has
\* removed the worktree and the branch of the first level.
C15_Witness ==
    /\ mpc = "exited"
    /\ grammar = "strict"
    /\ args = <<"remove">>
    /\ cwd = "/repo/.worktrees/bar/sub"
    /\ rmName = "bar"
    /\ gitCalls = RemovalOf("bar")
    /\ runErr = NoError
    /\ exitCode = -1

RECURSIVE FirstFlagFrom(_, _)
\* Go index of the first token at or after i that starts with "-", is not
\* --hook and is not the value of a --hook, when it comes before the first
\* positional token; -1 when there is none.
FirstFlagFrom(a, i) ==
    IF i >= Len(a) THEN -1
    ELSE IF At(a, i) = "--hook"
    THEN IF i + 1 >= Len(a) THEN -1 ELSE FirstFlagFrom(a, i + 2)
    ELSE IF At(a, i) \in {"-x", "-y"} THEN i
    ELSE -1
FirstFlag == FirstFlagFrom(args, ScanStart)

\* C16: once the command is resolved, a token that starts with "-", is not
\* --hook, is not the value of a --hook and comes before the first
\* positional makes parseArgs fail with "unknown flag <token>", the token
\* named being the first such one; this holds for every command, no handler
\* runs and main exits 1.  No other argument list gives that error.
C16_UnknownFlagBeforePositional ==
    (RunStarted /\ CommandResolved) =>
        /\ FirstFlag # -1 =>
              /\ parsed.err = <<"unknown flag %s", At(args, FirstFlag)>>
              /\ runErr = parsed.err
              /\ calls = <<>>
              /\ mpc = "exited" => exitCode = 1
        /\ FirstFlag = -1 => (parsed.err = NoError \/ parsed.err[1] # "unknown flag %s")

\* C16 witness: an unknown flag after a complete option, for a command that
\* takes no name.
C16_Witness ==
    /\ mpc = "exited"
    /\ args = <<"list", "--hook", "foo", "-x">>
    /\ parsed.err = <<"unknown flag %s", "-x">>
    /\ exitCode = 1

\* The --hook options of an argument list: the `--hook <value>` pairs that
\* follow the command without a gap.  HookOptions is their number.
IsHookRun(k) ==
    /\ ScanStart + 2 * k <= Len(args)
    /\ \A j \in 0..(k - 1) : At(args, ScanStart + 2 * j) = "--hook"
HookOptions == CHOOSE k \in 0..Len(args) :
                  IsHookRun(k) /\ \A m \in 0..Len(args) : IsHookRun(m) => m <= k
Accepted == RunStarted /\ parsed.err = NoError

\* C17: for every accepted invocation, of every command, hookPath is
\* ".worktree-hook" when no --hook option was given and otherwise the token
\* after the last --hook option, whatever that token is.
C17_HookPathDefaultOrLastGiven ==
    Accepted =>
        parsed.hookPath = IF HookOptions = 0 THEN ".worktree-hook"
                          ELSE At(args, ScanStart + 2 * HookOptions - 1)

\* C17 witness: an accepted invocation with --hook given twice, the second
\* value looking like a flag.
C17_Witness ==
    /\ Accepted
    /\ args = <<"list", "--hook", "foo", "--hook", "-x">>
    /\ parsed = Parsed("list", "", "-x")
    /\ calls = <<"list">>

----------------------------------------------------------------------------
(* Properties of main, checked under Spec *)

\* C18: when main has finished, the show-help outcome has printed the usage
\* text on standard output and exited 0; the show-help-error outcome has
\* printed it on standard error and exited 1; any other error of parseArgs
\* or of a handler has printed exactly "error: <message>" on standard error
\* and exited 1; after a run without error main has printed nothing and has
\* not called the exit function.
C18_MainMapsEveryOutcome ==
    mpc = "exited" =>
        IF runErr = NoError
        THEN exitCode = -1 /\ stdout = <<>> /\ stderr = <<>>
        ELSE IF runErr = <<"show help">>
        THEN exitCode = 0 /\ stdout = <<"usage">> /\ stderr = <<>>
        ELSE IF runErr = <<"show help (error)">>
        THEN exitCode = 1 /\ stdout = <<>> /\ stderr = <<"usage">>
        ELSE exitCode = 1 /\ stdout = <<>> /\ stderr = <<"error: %v\n", runErr>>

\* C18 witness: a handler error has been reported.
C18_Witness ==
    /\ mpc = "exited"
    /\ parsed.err = NoError
    /\ calls # <<>>
    /\ runErr = <<"failed to create worktree: %w">>
    /\ stderr = <<"error: %v\n", <<"failed to create worktree: %w">>>>
    /\ exitCode = 1

----------------------------------------------------------------------------
(* Properties of parseArgs as a function, checked under Spec *)

\* parseArgs of the running generation.
ParseOf(g, a) == IF g = "strict" THEN parseArgs(a) ELSE parseArgsLegacy(a)

\* The canonical argument list of a parsed invocation.
Render(p) ==
    <<p.cmd, "--hook", p.hookPath>> \o (IF p.name = "" THEN <<>> ELSE <<p.name>>)

\* C19 as stated: the canonical list of every accepted invocation is
\* accepted and parses to the same command, name and hookPath.
C19_RenderRoundTrip ==
    Accepted => ParseOf(grammar, Render(parsed)) = parsed

\* The commands that do not parse without a positional.
NameRequired(g) ==
    IF g = "strict" THEN {"create", "completion", "__complete"}
                    ELSE {"create", "remove", "completion", "__complete"}
MissingName(c) ==
    IF c = "completion" THEN <<"shell name required (bash, zsh, fish)">>
    ELSE IF c = "__complete" THEN <<"subcommand required">>
    ELSE <<"branch name required">>

\* C19: the canonical list of an accepted invocation is accepted and parses
\* to the same command, name and hookPath, unless the invocation was accepted
\* with an empty token as the name of a command that requires one; the
\* canonical list then has no name and is rejected with that command's
\* missing-name error.
C19_RenderRoundTripUnlessEmptyName ==
    Accepted =>
        IF parsed.name = "" /\ parsed.cmd \in NameRequired(grammar)
        THEN ParseOf(grammar, Render(parsed)) = ParseError(MissingName(parsed.cmd))
        ELSE ParseOf(grammar, Render(parsed)) = parsed

\* C19 witness: an implicit create with an empty hook path, whose canonical
\* list names the command and parses to the same invocation.
C19_Witness ==
    /\ Accepted
    /\ grammar = "legacy"
    /\ args = <<"--hook", "", "foo">>
    /\ parsed = Parsed("create", "foo", "")
    /\ Render(parsed) = <<"create", "--hook", "", "foo">>
    /\ ParseOf(grammar, Render(parsed)) = parsed

\* C20: in the legacy generation a non-empty, help-free argument list whose
\* first token is not a command name parses to exactly what the list with
\* "create" put in front parses to: the same command, name and hookPath, or
\* the same error.
C20_ImplicitCreateIsCreate ==
    (RunStarted /\ grammar = "legacy" /\ HelpFree /\ ~isValidCommandLegacy(args[1])) =>
        /\ parsed = parseArgsLegacy(<<"create">> \o args)
        /\ parsed.err = NoError => parsed.cmd = "create"

\* C20 witness: `wt --hook foo foo` has parsed to the create that
\* `wt create --hook foo foo` parses to.
C20_Witness ==
    /\ RunStarted
    /\ grammar = "legacy"
    /\ args = <<"--hook", "foo", "foo">>
    /\ parsed = Parsed("create", "foo", "foo")
    /\ parseArgsLegacy(<<"create", "--hook", "foo", "foo">>) = parsed
    /\ calls = <<"create">>

----------------------------------------------------------------------------
(* Properties of the check details, checked under SpecAnalyze *)

\* The marker the documentation gives a check: "+" for COMPLETED with
\* SUCCESS, "x" for COMPLETED with FAILURE, blank otherwise.
DocumentedMarker(c) ==
    IF c.Status = "COMPLETED" /\ c.Conclusion = "SUCCESS" THEN "+"
    ELSE IF c.Status = "COMPLETED" /\ c.Conclusion = "FAILURE" THEN "x"
    ELSE " "
Printed == apc \in {"printed", "printedInline"}

DetectionRan ==
    /\ Len(calls) > 0
    /\ calls[1] = "runRemove"
    /\ parsed.name = ""
    /\ RemoveCalled \/ runErr = ErrNotInsideWorktree

\* The name the documentation gives each working directory: the first path
\* component below <root>/.worktrees, and none for the root, the worktrees
\* directory itself, a path that only shares its string prefix, any other
\* path and a failing getwd.
ExpectedWorktree ==
    IF cwd \in {"/repo/.worktrees/bar", "/repo/.worktrees/bar/sub"} THEN "bar"
    ELSE IF cwd = "/repo/.worktrees/foo" THEN "foo"
    ELSE IF cwd = "/repo/.worktrees/foo-bar" THEN "foo-bar"
    ELSE ""

\* C22: CurrentWorktreeName returns no error; its name is the first path
\* component of the working directory below <root>/.worktrees, and "" for
\* the repository root, the .worktrees directory itself, a directory below
\* <root>/.worktrees-old, any other directory and a failing getwd.  runRemove
\* removes the worktree of that name, or gives up when it is empty.
C22_DetectionByFirstComponent ==
    DetectionRan =>
        /\ CurrentWorktreeName(cwd).err = NoError
        /\ CurrentWorktreeName(cwd).name = ExpectedWorktree
        /\ IF ExpectedWorktree = ""
           THEN runErr = ErrNotInsideWorktree /\ ~RemoveCalled
           ELSE RemoveCalled /\ rmName = ExpectedWorktree

\* C22 witness: below <root>/.worktrees-old nothing was detected.
C22_Witness ==
    /\ DetectionRan
    /\ cwd = "/repo/.worktrees-old/bar"
    /\ CurrentWorktreeName(cwd) = [name |-> "", err |-> NoError]
    /\ runErr = ErrNotInsideWorktree
    /\ gitCalls = <<>>

\* The working directory is the directory <root>/.worktrees/<n> or lies
\* below it.
CwdAtOrBelow(n) ==
    IF n = "foo" THEN cwd = "/repo/.worktrees/foo"
    ELSE IF n = "foo-bar" THEN cwd = "/repo/.worktrees/foo-bar"
    ELSE IF n = "bar" THEN cwd \in {"/repo/.worktrees/bar", "/repo/.worktrees/bar/sub"}
    ELSE IF n = "" THEN cwd \in {"/repo/.worktrees", "/repo/.worktrees/bar",
                                 "/repo/.worktrees/bar/sub", "/repo/.worktrees/foo",
                                 "/repo/.worktrees/foo-bar"}
    ELSE FALSE

----------------------------------------------------------------------------
(* Properties of jump and create, checked under SpecWorktree *)

Jumped == wpc = "jumped" /\ rootErr = NoError
Created == wpc = "created" /\ rootErr = NoError
TargetPath == IF wName = "" THEN "/repo/.worktrees" ELSE "/repo/.worktrees/" \o wName
TargetExists == fsys.worktree = "nil"

\* C24: jump with an empty name prints the repository root exactly when the
\* working directory is inside a worktree, prints nothing otherwise and
\* succeeds either way (also when getwd failed); jump with a name prints
\* <root>/.worktrees/<name> when that path exists, and otherwise prints
\* nothing and returns 'worktree "<name>" does not exist'.  Violated: when
\* os.Stat fails with an error other than "does not exist" (.worktrees is a
\* regular file, so nothing exists below it), the path is printed and jump
\* succeeds.
C24_JumpPrintsExistingOrFails ==
    Jumped =>
        IF wName = ""
        THEN /\ wErr = NoError
             /\ wOut = <<"/repo">> <=> CwdInWorktree
             /\ wOut # <<"/repo">> => wOut = <<>>
        ELSE IF TargetExists
        THEN wOut = <<TargetPath>> /\ wErr = NoError
        ELSE wOut = <<>> /\ wErr = <<"worktree %q does not exist", wName>>

\* C24, what the code does: the same, but with a name the error is returned
\* only when os.Stat reports that the path does not exist; every other
\* answer of os.Stat prints the path.
C24_JumpFollowsIsNotExist ==
    Jumped =>
        IF wName = ""
        THEN /\ wErr = NoError
             /\ wOut = <<"/repo">> <=> CwdInWorktree
             /\ wOut # <<"/repo">> => wOut = <<>>
        ELSE IF fsys.worktree # "ENOENT"
        THEN wOut = <<TargetPath>> /\ wErr = NoError
        ELSE wOut = <<>> /\ wErr = <<"worktree %q does not exist", wName>>

C24_Witness ==
    /\ Jumped /\ wName = "foo" /\ fsys.worktrees = "nil" /\ fsys.worktree = "ENOTDIR"
    /\ wOut = <<"/repo/.worktrees/foo">> /\ wErr = NoError

----------------------------------------------------------------------------
(* Termination of the polling loop, checked under SpecClock *)

Polling == gpc \in {"loop", "query", "sleep"}
GhaSucceeded == ghaErr = NoError /\ result = CheckResultSuccess
GhaFailed == ghaErr = ErrChecksFailed /\ result = CheckResultFailure
GhaTimedOut == ghaErr = ErrTimeout(GHATimeout)
GhaProviderFailed == ghaErr \in ProviderErrors /\ provErr = ghaErr
OutcomesReached ==
    {o \in {"Succeeded", "Failed", "TimedOut", "ProviderError"} :
        \/ o = "Succeeded" /\ GhaSucceeded
        \/ o = "Failed" /\ GhaFailed
        \/ o = "TimedOut" /\ GhaTimedOut
        \/ o = "ProviderError" /\ GhaProviderFailed}
QueryBound == (GHATimeout \div DefaultPollInterval) + 1

\* C25: when the clock advances by the poll interval in every sleep and by
\* nothing else, gha terminates; it never makes more than floor(T/I) + 1
\* provider queries; when every answer was Pending it ends with the timeout
\* error; and the loop is left only into exactly one of Succeeded, Failed,
\* TimedOut or a provider error.
C25_TerminatesWithinQueryBound ==
    /\ <>(gpc = "done")
    /\ [](queries <= QueryBound)
    /\ []((gpc = "done" /\ pendings = queries) => (GhaTimedOut /\ queries = QueryBound))
    /\ [][(Polling /\ ~Polling') => (gpc' = "done" /\ Cardinality(OutcomesReached') = 1)]_vars

C25_Witness ==
    /\ gpc = "done" /\ GHATimeout = 3600 /\ queries = 121 /\ pendings = 121
    /\ sleeps = 121 /\ elapsed = 3630
    /\ ghaErr = <<"timeout: checks did not complete within %v", 3600>>

----------------------------------------------------------------------------
(* Order of the git commands of remove, checked under SpecRemove *)

WorktreeRemoval(w) == <<RemovalOf(w)[1]>>

\* C26: remove(name) runs `git worktree remove <root>/.worktrees/<name>` and
\* then `git branch -D <name>`, both from the repository root; the branch is
\* deleted only after the worktree was removed; a failing step is returned
\* wrapped and no git command follows it; no command is repeated.
C26_WorktreeRemovedBeforeBranch ==
    /\ ~RemoveCalled => gitCalls = <<>>
    /\ (RemoveCalled /\ ~HandlerDone) => gitCalls = <<>>
    /\ (RemoveCalled /\ HandlerDone) =>
          /\ rootErr # NoError => (gitCalls = <<>> /\ runErr = rootErr)
          /\ rootErr = NoError =>
                /\ gitCalls \in {WorktreeRemoval(rmName), RemovalOf(rmName)}
                /\ gitCalls = WorktreeRemoval(rmName) <=>
                      runErr = <<"failed to remove worktree: %w">>
                /\ gitCalls = RemovalOf(rmName) <=>
                      runErr \in {NoError, <<"failed to delete branch: %w">>}

C26_Witness ==
    /\ RemoveCalled /\ HandlerDone /\ rmName = "foo"
    /\ gitCalls = <<[dir |-> "/repo", cmd |-> <<"worktree", "remove">>,
                     target |-> "/repo/.worktrees/foo"]>>
    /\ runErr = <<"failed to remove worktree: %w">>

----------------------------------------------------------------------------
(* Order of the steps of create, checked under SpecWorktree *)

IsEffect(s) == s.op \in {"git", "symlink", "runHook", "stdout"}
Effects == SelectSeq(steps, IsEffect)
LastEffect == IF Effects = <<>> THEN "" ELSE Effects[Len(Effects)].op

\* What a create that meets no failure does, in order.
FullCreation ==
    <<[op |-> "git", arg |-> <<"/repo", "worktree", "add", TargetPath, "-b", wName>>]>>
    \o (IF fsys.claude = "nil"
        THEN <<[op |-> "symlink", arg |-> <<"/repo/.claude", TargetPath \o "/.claude">>]>>
        ELSE <<>>)
    \o (IF fsys.hook = "nil"
        THEN <<[op |-> "runHook", arg |-> <<"/repo/" \o wHook, TargetPath>>]>>
        ELSE <<>>)
    \o <<[op |-> "stdout", arg |-> <<TargetPath>>]>>

\* C27: create first checks that .worktrees exists, then runs
\* `git worktree add <path> -b <name>`, links .claude when the root has one,
\* runs the hook when it exists and prints the worktree path, in this order;
\* a step runs only if every earlier one succeeded: no git command when
\* .worktrees is missing, no link and no hook after a failed git command, no
\* hook after a failed link, and the path is printed only after the hook
\* succeeded.
C27_CreateStepsInOrder ==
    Created =>
        /\ steps[1] = [op |-> "stat", arg |-> <<"/repo/.worktrees">>]
        /\ IsPrefix(Effects, FullCreation)
        /\ fsys.worktrees = "ENOENT" <=>
              wErr = <<"%s directory does not exist (create it first)", ".worktrees">>
        /\ fsys.worktrees = "ENOENT" <=> Effects = <<>>
        /\ wErr = <<"failed to create worktree: %w">> <=> LastEffect = "git"
        /\ wErr = <<"failed to create %s/ symlink: %w", ".claude">> <=> LastEffect = "symlink"
        /\ wErr = <<"hook failed: %w">> <=> LastEffect = "runHook"
        /\ wErr = NoError <=> Effects = FullCreation
        /\ wOut = (IF wErr = NoError THEN <<TargetPath>> ELSE <<>>)

C27_Witness ==
    /\ Created /\ wName = "foo" /\ fsys.claude = "nil" /\ fsys.hook = "nil"
    /\ Len(Effects) = 4 /\ LastEffect = "stdout"
    /\ wOut = <<"/repo/.worktrees/foo">> /\ wErr = NoError

----------------------------------------------------------------------------
(* The two generations of analyzeChecks, checked under SpecAnalyze *)

\* C28: the inline analyzeChecks and the refactored analyzeChecks return the
\* same result and the same summary for every check collection, the empty
\* one and records with unknown status or conclusion values included:
\* whichever of the two was called, the other one returns what it returned.
C28_GenerationsAgree ==
    /\ apc = "analyzed" =>
          /\ result = analyzeChecksInline(checks).result
          /\ summary = analyzeChecksInline(checks).summary
    /\ apc = "analyzedInline" =>
          /\ result = analyzeChecks(checks).result
          /\ summary = analyzeChecks(checks).summary

C28_Witness ==
    /\ apc = "analyzedInline"
    /\ checks = <<[Name |-> "build", Status |-> "COMPLETED", Conclusion |-> "TIMED_OUT"],
                  [Name |-> "build", Status |-> "WAITING", Conclusion |-> "SUCCESS"]>>
    /\ result = 0
    /\ summary = <<"Checks: %d/%d completed (%d passed, %d failed, %d pending)", 1, 2, 0, 1, 1>>

----------------------------------------------------------------------------
(* The name of an accepted create, checked under Spec *)

CreateDispatched == \E i \in 1..Len(calls) : calls[i] = "create"
LastToken == IF args = <<>> THEN "--none--" ELSE args[Len(args)]

\* C29: every invocation parseArgs accepts with command create carries a
\* non-empty name, an empty-string positional being rejected with
\* 'branch name required', so that create is never called with an empty
\* branch name.  Violated: `create ""` is accepted with name "" and create
\* is called with it.
C29_CreateNameNeverEmpty ==
    /\ (Accepted /\ parsed.cmd = "create") => parsed.name # ""
    /\ CreateDispatched => parsed.name # ""

\* C29, what the code does: the name of an accepted create is the last
\* token of the argument list, whatever it is, the empty string included.
C29_CreateNameIsLastToken ==
    (Accepted /\ parsed.cmd = "create") => parsed.name = LastToken

C29_Witness ==
    /\ grammar = "strict" /\ args = <<"create", "">>
    /\ parsed = [cmd |-> "create", name |-> "", hookPath |-> ".worktree-hook", err |-> <<>>]
    /\ CreateDispatched

----------------------------------------------------------------------------
(* Properties of the shell wrappers, checked under SpecWrapper *)

Wrapped == shpc \in {"bash", "fish"} /\ binFound
FirstArg == IF shArgs = <<>> THEN "--none--" ELSE shArgs[1]
Captured == JoinLines(binOut, IF shpc = "bash" THEN "\n" ELSE " ")
DirChanged == shCwd # "/home"
TextCommands == {"list", "gha", "completion", "__complete"}

\* C30: for every command run through the bash or the fish wrapper, the
\* binary's standard output either reaches the terminal or is the directory
\* the shell changes into; the output of list, gha, completion and
\* __complete always reaches the terminal; and the directory is changed only
\* when the binary exited 0 and printed an existing directory.  Violated: the
\* output of list and of gha is captured and never shown.
C30_OutputShownOrEntered ==
    Wrapped =>
        /\ terminal = binOut \/ DirChanged
        /\ FirstArg \in TextCommands => terminal = binOut
        /\ DirChanged => (binExit = 0 /\ Captured \in shDirs)

\* C30, what the wrappers do: the output reaches the terminal exactly for
\* completion, __complete and a call without arguments (in bash also for an
\* empty first argument); every other command's output is captured and
\* shown nowhere, and the directory is changed only for such a command that
\* exited 0 and printed an existing directory.
C30_OnlyCompletionPassedThrough ==
    Wrapped =>
        /\ terminal = IF \/ FirstArg \in {"completion", "__complete", "--none--"}
                         \/ (FirstArg = "" /\ shpc = "bash")
                      THEN binOut ELSE <<>>
        /\ DirChanged => /\ binExit = 0 /\ Captured \in shDirs /\ terminal = <<>>
                         /\ shCwd = (IF Captured = "foo" THEN "/home/foo" ELSE Captured)
        /\ shStatus = (IF DirChanged \/ shpc = "fish" THEN binExit ELSE shStatus)
        /\ shStatus \in {binExit, 1}

C30_Witness ==
    /\ Wrapped /\ shpc = "bash" /\ shArgs = <<"list">>
    /\ binOut = <<"foo", "bar">> /\ binExit = 0
    /\ terminal = <<>> /\ ~DirChanged /\ shStatus = 0

====
